---- MODULE Spec2Model ----
(***************************************************************************)
(* synapseutils.migrate_functions.migrate(): the validation of a call, the *)
(* indexing of a project into the sqlite "migrations" table, and the       *)
(* migration phase: the cursor query that streams INDEXED rows, the        *)
(* dispatch of one task per row to the shared executor, the worker threads *)
(* that run the tasks, and _wait_futures, which records each outcome in    *)
(* the table and commits it.                                               *)
(***************************************************************************)
EXTENDS Integers, Sequences, FiniteSets, TLC

\* ---------------------------------------------------------------- bounds

\* largest max_concurrent_file_copies tried (max(int(DEFAULT_NUM_THREADS / 2), 1))
MaxConcurrent == 2
\* largest value of _get_batch_size() tried (the function is a mock point)
MaxBatch == 2
\* largest pool_provider.DEFAULT_NUM_THREADS tried
MaxThreads == 5
\* how many migration tasks the pool is followed for
MaxPoolTasks == 3
\* threads that run transfers under one CumulativeTransferProgress
MaxTransferThreads == 2
\* how many transfers they run in all
MaxTransfers == 3
\* largest value of transferred a transfer reports
MaxTransferred == 2
\* most FILE and TABLE_ATTACHED_FILE rows of an indexed table
MaxPayloadRows == 3

\* ------------------------------------------------------------- constants

\* _MigrationStatus
INDEXED == 1
MIGRATED == 2
ALREADY_MIGRATED == 3
ERRORED == 4

\* _MigrationType
PROJECT == 1
FOLDER == 2
FILE == 3
TABLE_ATTACHED_FILE == 4

\* SQL NULL / Python None in an integer column. It sorts before every value,
\* as sqlite's ORDER BY does, and is distinct from the -1 the cursor uses.
NULL == -2

\* The value _get_batch_size() returns as shipped.
ShippedBatchSize == 1

\* ------------------------------------------------------------------ rows

KeyFields == {"id", "type", "version", "row_id", "col_id"}

\* _MigrationKey(id, type, version, row_id, col_id)
MigrationKey(id, type, version, row_id, col_id) ==
    [id |-> id, type |-> type, version |-> version, row_id |-> row_id, col_id |-> col_id]

\* key_dict of a selected row
KeyOf(r) == MigrationKey(r.id, r.type, r.version, r.row_id, r.col_id)

\* A row as the indexer inserts it: status INDEXED, no exception, no
\* to_file_handle_id.
IndexedRow(id, type, version, row_id, col_id, parent_id, sl, fh) ==
    [id |-> id, type |-> type, version |-> version, row_id |-> row_id,
     col_id |-> col_id, parent_id |-> parent_id, status |-> INDEXED,
     exception |-> NULL, from_storage_location_id |-> sl,
     from_file_handle_id |-> fh, to_file_handle_id |-> NULL]

\* The rows _index_file_entity inserts for file 3 of project 1.
\* 'new': one row, version NULL, with the file handle of the current
\* version, which is version 2.
FileRowsNew == << IndexedRow(3, FILE, NULL, NULL, NULL, 1, 7, 32) >>
\* 'all': one row per version, in the order the version listing gives them.
FileRowsAll == << IndexedRow(3, FILE, 2, NULL, NULL, 1, 7, 32),
                  IndexedRow(3, FILE, 1, NULL, NULL, 1, 7, 31) >>

\* The rows _index_table_entity inserts for table 2: one per non-empty cell.
TableARows == << IndexedRow(2, TABLE_ATTACHED_FILE, 1, 2, 1, 1, 7, 23),
                 IndexedRow(2, TABLE_ATTACHED_FILE, 5, 1, 2, 1, 7, 22),
                 IndexedRow(2, TABLE_ATTACHED_FILE, 5, 1, 1, 1, 7, 21) >>
\* and for table 4
TableBRows == << IndexedRow(4, TABLE_ATTACHED_FILE, 1, 1, 1, 1, 7, 41) >>
\* The cells of the one row of table 6, a table outside the project: the
\* cell of column 1 holds file handle 61, the cell of column 2 is empty (its
\* file handle id is None).
TableCRows == << IndexedRow(6, TABLE_ATTACHED_FILE, 1, 1, 1, 1, 7, 61),
                 IndexedRow(6, TABLE_ATTACHED_FILE, 1, 1, 2, 1, NULL, NULL) >>

\* The row _index_container inserts for the root project once its children
\* are indexed.
ContainerRows == << IndexedRow(1, PROJECT, NULL, NULL, NULL, NULL, NULL, NULL) >>

\* The tables a completed indexing run can leave, by what the project held.
IndexedTables ==
    { t \in { f \o SubSeq(TableBRows, 1, nb) \o SubSeq(TableARows, 1, na)
                \o ContainerRows :
                f \in {<< >>, FileRowsNew, FileRowsAll}, na \in 0..3, nb \in 0..1 } :
        Len(t) <= MaxPayloadRows + 1 }

\* ------------------------------------------------------------- the SQL

\* sqlite's ">" on a nullable column: a comparison with NULL is not true.
SqlGt(a, b) == a # NULL /\ b # NULL /\ a > b

\* Mutant: the cursor query without "(row_id = ? and col_id > ?)".
CursorPredicateRowOnly(r, k) ==
    LET version == IF k.version # NULL THEN k.version ELSE -1
        row_id  == IF k.row_id # NULL THEN k.row_id ELSE -1
    IN  /\ r.status = INDEXED
        /\ \/ (r.id > k.id /\ r.type \in {FILE, TABLE_ATTACHED_FILE})
           \/ (r.id = k.id /\ r.type = FILE /\ r.version # NULL
                /\ SqlGt(r.version, version))
           \/ (r.id = k.id /\ r.type = TABLE_ATTACHED_FILE
                /\ SqlGt(r.row_id, row_id))

\* Mutant: the cursor query without "status = ?".
CursorPredicateNoStatus(r, k) ==
    LET version == IF k.version # NULL THEN k.version ELSE -1
        row_id  == IF k.row_id # NULL THEN k.row_id ELSE -1
        col_id  == IF k.col_id # NULL THEN k.col_id ELSE -1
    IN  \/ (r.id > k.id /\ r.type \in {FILE, TABLE_ATTACHED_FILE})
        \/ (r.id = k.id /\ r.type = FILE /\ r.version # NULL
             /\ SqlGt(r.version, version))
        \/ (r.id = k.id /\ r.type = TABLE_ATTACHED_FILE
             /\ (\/ SqlGt(r.row_id, row_id)
                 \/ (r.row_id = row_id /\ SqlGt(r.col_id, col_id))))

\* Mutant: the cursor query with "status >= ?", as _check_indexed has it.
CursorPredicateStatusGe(r, k) ==
    LET version == IF k.version # NULL THEN k.version ELSE -1
        row_id  == IF k.row_id # NULL THEN k.row_id ELSE -1
        col_id  == IF k.col_id # NULL THEN k.col_id ELSE -1
    IN  /\ r.status >= INDEXED
        /\ \/ (r.id > k.id /\ r.type \in {FILE, TABLE_ATTACHED_FILE})
           \/ (r.id = k.id /\ r.type = FILE /\ r.version # NULL
                /\ SqlGt(r.version, version))
           \/ (r.id = k.id /\ r.type = TABLE_ATTACHED_FILE
                /\ (\/ SqlGt(r.row_id, row_id)
                    \/ (r.row_id = row_id /\ SqlGt(r.col_id, col_id))))

\* The where clause of the cursor query (the row r against the key k of the
\* row dispatched last): status INDEXED and one of the three disjuncts, with
\* a None version, row_id or col_id of the key replaced by -1.
CursorPredicate(r, k) ==
    LET version == IF k.version # NULL THEN k.version ELSE -1
        row_id  == IF k.row_id # NULL THEN k.row_id ELSE -1
        col_id  == IF k.col_id # NULL THEN k.col_id ELSE -1
    IN  /\ r.status = INDEXED
        /\ \/ (r.id > k.id /\ r.type \in {FILE, TABLE_ATTACHED_FILE})
           \/ (r.id = k.id /\ r.type = FILE /\ r.version # NULL
                /\ SqlGt(r.version, version))
           \/ (r.id = k.id /\ r.type = TABLE_ATTACHED_FILE
                /\ (\/ SqlGt(r.row_id, row_id)
                    \/ (r.row_id = row_id /\ SqlGt(r.col_id, col_id))))

\* order by id, type, row_id, col_id, version (NULL first): a before b.
OrderBy(a, b) ==
    \/ a.id < b.id
    \/ a.id = b.id /\ a.type < b.type
    \/ a.id = b.id /\ a.type = b.type /\ a.row_id < b.row_id
    \/ a.id = b.id /\ a.type = b.type /\ a.row_id = b.row_id /\ a.col_id < b.col_id
    \/ a.id = b.id /\ a.type = b.type /\ a.row_id = b.row_id /\ a.col_id = b.col_id
        /\ a.version < b.version

\* Mutant: the query without its "order by": rows come by rowid.
RECURSIVE OrderedByRowid(_, _, _)
OrderedByRowid(db, S, limit) ==
    IF S = {} \/ limit = 0 THEN << >>
    ELSE LET first == CHOOSE i \in S : \A j \in S : i <= j
         IN  << db[first] >> \o OrderedByRowid(db, S \ {first}, limit - 1)

\* The rows of the rowids S in the query's order, at most limit of them.
RECURSIVE Ordered(_, _, _)
Ordered(db, S, limit) ==
    IF S = {} \/ limit = 0 THEN << >>
    ELSE LET first == CHOOSE i \in S : \A j \in S : ~OrderBy(db[j], db[i])
         IN  << db[first] >> \o Ordered(db, S \ {first}, limit - 1)

\* The cursor query: the rows after key k, ordered, limit of them.
SelectBatch(db, k, limit) ==
    Ordered(db, {i \in DOMAIN db : CursorPredicate(db[i], k)}, limit)

\* Mutant: the update's where clause without the version.
UpdateMatchesNoVersion(r, k) ==
    /\ r.id = k.id
    /\ r.type = k.type
    /\ \A arg \in {"row_id", "col_id"} :
          IF k[arg] # NULL THEN r[arg] # NULL /\ r[arg] = k[arg]
                           ELSE r[arg] = NULL

\* The where clause _wait_futures builds for a key: id and type by equality,
\* version, row_id and col_id by equality or by "is null".
UpdateMatches(r, k) ==
    /\ r.id = k.id
    /\ r.type = k.type
    /\ \A arg \in {"version", "row_id", "col_id"} :
          IF k[arg] # NULL THEN r[arg] # NULL /\ r[arg] = k[arg]
                           ELSE r[arg] = NULL

\* Mutant: the update also moves the new file handle id into
\* from_file_handle_id.
UpdateOutcomeMovingHandle(db, k, status, to_file_handle_id, tb_str) ==
    [i \in DOMAIN db |->
        IF UpdateMatches(db[i], k)
        THEN [db[i] EXCEPT !.status = status,
                           !.to_file_handle_id = to_file_handle_id,
                           !.exception = tb_str,
                           !.from_file_handle_id =
                               IF to_file_handle_id # NULL
                               THEN to_file_handle_id ELSE @]
        ELSE db[i]]

\* update migrations set status, to_file_handle_id, exception where ...
UpdateOutcome(db, k, status, to_file_handle_id, tb_str) ==
    [i \in DOMAIN db |->
        IF UpdateMatches(db[i], k)
        THEN [db[i] EXCEPT !.status = status,
                           !.to_file_handle_id = to_file_handle_id,
                           !.exception = tb_str]
        ELSE db[i]]

\* Mutant: _check_indexed finds no row.
check_indexedNever(db, entity_id) ==
    FALSE

\* Mutant: _check_indexed with "status > ?".
check_indexedAbove(db, entity_id) ==
    \E i \in DOMAIN db : db[i].id = entity_id /\ db[i].status > INDEXED

\* "select 1 from migrations where id = ? and status >= ?"
check_indexed(db, entity_id) ==
    \E i \in DOMAIN db : db[i].id = entity_id /\ db[i].status >= INDEXED

\* ------------------------------------------------------------ the state

VARIABLES
    migrations,     \* the sqlite table, by rowid: committed rows
    pc,             \* where the scheduler thread of the current call is
    table_strategy, \* arguments of the current call
    continue_on_error,
    dry_run,
    max_concurrent_file_copies, \* second value of _get_executor()
    batch_size,     \* value of _get_batch_size()
    key,            \* the _MigrationKey of the row dispatched last
    results,        \* rows of the current batch not yet iterated
    migration_fn,   \* the operation selected for the row dispatched last
    futures,        \* submitted tasks the scheduler has not waited out
    completed,      \* done futures _wait_futures is iterating over
    return_when,    \* FIRST_COMPLETED or ALL_COMPLETED of the current wait
    migrated_count, \* locals of _wait_futures
    error_count,
    migrated_total, \* locals of migrate()
    error_total,
    raised,         \* the exception migrate() raised, if it did
    calls,          \* this call's snapshot and submit calls, in order
    executed,       \* keys of this call's tasks that ran to their end
    table0,         \* the table as the current call found it
    file_version_strategy,  \* argument of the current call
    storage_location_owned, \* whether the caller owns storage_location_id
    storage_location_id,    \* argument: the storage location to migrate to
    service,        \* the calls the entity service fails: at indexing
                    \* (entity ids, file handle ids) and at copy (handles)
    opened,         \* whether the current call has connected to db_path
    pending,        \* rows inserted on the connection and not committed
    stack,          \* the _index_entity calls in progress, innermost last
    service_calls,  \* this call's listing and lookup calls while indexing
    indexed_total,  \* local of migrate()
    rowid,          \* local of get_migrations(): the last rowid it read
    row_dicts,      \* the row_dicts get_migrations() has yielded, in order
    thread_count,   \* pool_provider.DEFAULT_NUM_THREADS: threads of the pool
    pool_tasks,     \* the migration tasks in the pool, by their state
    pool_parts,     \* the part copy each task's multipart_copy submits
    isatty,         \* sys.stdout.isatty()
    lock,           \* CumulativeTransferProgress._lock: its holder, or 0
    total_transferred,  \* CumulativeTransferProgress._total_transferred
    thread_totals,  \* CumulativeTransferProgress._thread_totals
    transfer,       \* per thread: where it is and the transferred it reports
    started,        \* how many transfers were started
    finished_total, \* the sum of the last values finished transfers reported
    last_reported   \* per thread: the last value its running transfer reported

vars == << migrations, pc, table_strategy, continue_on_error, dry_run,
           max_concurrent_file_copies, batch_size, key, results, migration_fn,
           futures, completed, return_when, migrated_count, error_count,
           migrated_total, error_total, raised, calls, executed, table0,
           file_version_strategy, storage_location_owned,
           storage_location_id, service, opened,
           pending, stack, service_calls, indexed_total, rowid, row_dicts,
           thread_count, pool_tasks, pool_parts, isatty, lock,
           total_transferred, thread_totals, transfer, started, finished_total,
           last_reported >>

\* the caller's file strategy and what the entity service does
worldVars == << file_version_strategy, storage_location_owned,
               storage_location_id, service >>
\* what the indexing phase works on
walkVars == << pending, stack, service_calls, indexed_total >>
\* what the actions of migrate() leave alone: the state of the iteration
\* over a MigrationResult, and the threads of the executor
poolVars == << thread_count, pool_tasks, pool_parts >>
progressVars == << isatty, lock, total_transferred, thread_totals, transfer,
                   started, finished_total, last_reported >>
auxVars == << rowid, row_dicts, poolVars, progressVars >>
\* CumulativeTransferProgress.__init__, no thread in a transfer
ProgressIdle ==
    /\ isatty = TRUE
    /\ lock = 0
    /\ total_transferred = 0
    /\ thread_totals = [t \in 1..MaxTransferThreads |-> NULL]
    /\ transfer = [t \in 1..MaxTransferThreads |->
                      [pc |-> "outside", transferred |-> 0]]
    /\ started = 0
    /\ finished_total = 0
    /\ last_reported = [t \in 1..MaxTransferThreads |-> 0]

\* no iteration is going on and the pool has no work
AuxIdle ==
    /\ rowid = -1
    /\ row_dicts = << >>
    /\ thread_count = MaxThreads
    /\ pool_tasks = [t \in 1..MaxPoolTasks |-> "unsubmitted"]
    /\ pool_parts = [t \in 1..MaxPoolTasks |-> "none"]
    /\ ProgressIdle

\* key = _MigrationKey(id='', type=None, row_id=-1, col_id=-1, version=-1);
\* '' sorts before every entity id, as 0 does here.
InitialKey == MigrationKey(0, NULL, -1, -1, -1)

\* Exceptions: the class, the key of the task and what format_exception
\* renders of it.
NoException == [cls |-> "None", key |-> InitialKey, code |-> NULL]
\* the exception a failing copy or remote mutation raises in a task
CopyException(k, fh) == [cls |-> "SynapseError", key |-> k, code |-> fh]
\* raise _MigrationError(key) from ex
MigrationError(k, ex) == [cls |-> "_MigrationError", key |-> k, code |-> ex.code]
\* migration_ex.__cause__
Cause(migration_ex) == [migration_ex EXCEPT !.cls = "SynapseError"]
\* Mutant: "tb_str = None".
FormatExceptionNone(ex) == NULL

\* ''.join(traceback.format_exception(type(ex), ex, ex.__traceback__))
FormatException(ex) == ex.code

\* The file handle id multipart_copy returns for a source file handle.
multipart_copy(from_file_handle_id) == from_file_handle_id + 100

TableStrategies == {"snapshot", "noshapshot"}
DryRuns == {"False", "True", "None"}

\* ------------------------------------------------------- the entities

\* The project migrate() is called on: project 1 holds table 2, file 3 and
\* folder 5, and folder 5 holds table 4.
Root == 1
Children(id) ==
    IF id = 1 THEN << 2, 3, 5 >> ELSE IF id = 5 THEN << 4 >> ELSE << >>
\* utils.concrete_type_of(entity)
ConcreteType(id) ==
    IF id = 1 THEN "project"
    ELSE IF id = 5 THEN "folder"
    ELSE IF id = 3 THEN "file" ELSE "table"

\* include_types of _index_container
IncludeTypes(file_strategy, strategy) ==
    {"folder"} \cup (IF file_strategy # "None" THEN {"file"} ELSE {})
               \cup (IF strategy # "None" THEN {"table"} ELSE {})

\* syn.getChildren(entity_id, includeTypes=include_types)
getChildren(entity_id, include_types) ==
    SelectSeq(Children(entity_id), LAMBDA c : ConcreteType(c) \in include_types)

\* What _get_file_handle_rows yields for a table: per table row, the cells
\* of its file handle columns. Table 2 has the row of TableARows[1] and then
\* the row of TableARows[2] and TableARows[3].
TableQuery(table_id) ==
    IF table_id = 2 THEN << SubSeq(TableARows, 1, 1), SubSeq(TableARows, 2, 3) >>
    ELSE IF table_id = 6 THEN << TableCRows >>
    ELSE << TableBRows >>

RECURSIVE Flatten(_)
Flatten(seqs) ==
    IF seqs = << >> THEN << >> ELSE Head(seqs) \o Flatten(Tail(seqs))

\* the rows with the parent_id the indexer was called with
WithParent(rows, parent_id) ==
    [n \in DOMAIN rows |-> [rows[n] EXCEPT !.parent_id = parent_id]]

\* The exception of a failing call of the entity service about x, of the
\* insert of a tuple with the wrong number of values, and of validation.
ServiceError(x) == [cls |-> "SynapseHTTPError", key |-> InitialKey, code |-> x]
ProgrammingError == [cls |-> "ProgrammingError", key |-> InitialKey, code |-> NULL]
ValueError == [cls |-> "ValueError", key |-> InitialKey, code |-> NULL]

\* Mutant: under 'all' only the first version listed gets a row.
index_file_entityFirstVersion(entity_id, parent_id, file_strategy, failing) ==
    IF file_strategy \in {"new", "all", "latest"} /\ entity_id \in failing
    THEN [rows |-> << >>, raised |-> ServiceError(entity_id)]
    ELSE IF file_strategy = "latest"
    THEN [rows |-> << >>, raised |-> ProgrammingError]
    ELSE [rows |-> WithParent(IF file_strategy = "new" THEN FileRowsNew
                              ELSE IF file_strategy = "all"
                              THEN SubSeq(FileRowsAll, 1, 1)
                              ELSE << >>, parent_id),
          raised |-> NoException]

\* _index_file_entity: the rows it inserts and the exception it raises, the
\* calls about the entities in failing raising. Under 'latest' the tuple
\* has eight values for the seven columns of the insert.
index_file_entity(entity_id, parent_id, file_strategy, failing) ==
    IF file_strategy \in {"new", "all", "latest"} /\ entity_id \in failing
    THEN [rows |-> << >>, raised |-> ServiceError(entity_id)]
    ELSE IF file_strategy = "latest"
    THEN [rows |-> << >>, raised |-> ProgrammingError]
    ELSE [rows |-> WithParent(IF file_strategy = "new" THEN FileRowsNew
                              ELSE IF file_strategy = "all" THEN FileRowsAll
                              ELSE << >>, parent_id),
          raised |-> NoException]

\* _index_table_entity: the rows it inserts and the exception it raises. A
\* table row is yielded once the file handle of each of its cells is
\* fetched, its cells join row_batch, and row_batch is inserted whenever it
\* holds a multiple of the batch size, or at the end. lookups are the file
\* handle ids _getFileHandleDownload was called with: that of every cell of
\* every table row up to the first call that raises, the id None of an
\* empty cell among them.
index_table_entity(entity_id, parent_id, batch, failing) ==
    LET table_rows == TableQuery(entity_id)
        bad == {n \in DOMAIN table_rows :
                  \E c \in DOMAIN table_rows[n] :
                      table_rows[n][c].from_file_handle_id \in failing}
        stop == IF bad = {} THEN Len(table_rows) + 1
                ELSE CHOOSE n \in bad : \A m \in bad : n <= m
        yielded == Flatten(SubSeq(table_rows, 1, stop - 1))
        inserted == IF bad = {} THEN Len(yielded)
                    ELSE (Len(yielded) \div batch) * batch
        looked == IF bad = {} THEN yielded
                  ELSE yielded \o SubSeq(table_rows[stop], 1,
                          CHOOSE c \in DOMAIN table_rows[stop] :
                              /\ table_rows[stop][c].from_file_handle_id \in failing
                              /\ \A d \in 1..(c - 1) :
                                    table_rows[stop][d].from_file_handle_id
                                        \notin failing)
    IN  IF entity_id \in failing
        THEN [rows |-> << >>, lookups |-> << >>,
              raised |-> ServiceError(entity_id)]
        ELSE [rows |-> WithParent(SubSeq(yielded, 1, inserted), parent_id),
              lookups |-> [n \in DOMAIN looked |-> looked[n].from_file_handle_id],
              raised |-> IF bad = {} THEN NoException
                         ELSE ServiceError(
                             CHOOSE h \in failing :
                                 \E c \in DOMAIN table_rows[stop] :
                                     table_rows[stop][c].from_file_handle_id = h)]

\* Mutant: "insert or ignore into migrations".
RECURSIVE executemany_insert_or_ignore(_, _)
executemany_insert_or_ignore(db, rows) ==
    IF rows = << >> THEN [db |-> db, raised |-> NoException]
    ELSE IF \E i \in DOMAIN db : KeyOf(db[i]) = KeyOf(Head(rows))
    THEN executemany_insert_or_ignore(db, Tail(rows))
    ELSE executemany_insert_or_ignore(Append(db, Head(rows)), Tail(rows))

\* primary key (id, type, row_id, col_id, version): sqlite checks it for
\* the rows with no NULL in it.
PrimaryKeyConflict(db, row) ==
    /\ \A x \in KeyFields : row[x] # NULL
    /\ \E i \in DOMAIN db : KeyOf(db[i]) = KeyOf(row)

\* the exception of an insert that the primary key rejects
IntegrityError == [cls |-> "IntegrityError", key |-> InitialKey, code |-> NULL]

\* cursor.executemany("insert into migrations (...) values (...)", rows):
\* the table with the rows inserted up to the first the primary key
\* rejects, and the exception raised for that one.
RECURSIVE executemany_insert(_, _)
executemany_insert(db, rows) ==
    IF rows = << >> THEN [db |-> db, raised |-> NoException]
    ELSE IF PrimaryKeyConflict(db, Head(rows))
    THEN [db |-> db, raised |-> IntegrityError]
    ELSE executemany_insert(Append(db, Head(rows)), Tail(rows))

\* Mutant: the checks without _verify_storage_location_ownership.
ValidationOfStrategies(file_strategy, strategy, owned) ==
    IF file_strategy = "None" /\ strategy = "None" THEN ValueError
    ELSE IF file_strategy \notin {"new", "all", "latest", "None"} THEN ValueError
    ELSE IF strategy \notin {"snapshot", "noshapshot", "None"} THEN ValueError
    ELSE NoException

\* The checks of migrate() before it connects to the db file: the
\* exception they raise, if any.
Validation(file_strategy, strategy, owned) ==
    IF file_strategy = "None" /\ strategy = "None" THEN ValueError
    ELSE IF file_strategy \notin {"new", "all", "latest", "None"} THEN ValueError
    ELSE IF strategy \notin {"snapshot", "noshapshot", "None"} THEN ValueError
    ELSE IF ~owned THEN ValueError
    ELSE NoException

\* The arguments and the services the calls are checked with.
FileVersionStrategies == {"new", "all", "latest", "None", "newest"}
AllTableStrategies == {"snapshot", "noshapshot", "nosnapshot", "None"}
Services ==
    { [index |-> i, copy |-> c] : i \in {{}, {22}, {3}, {4}, {5}}, c \in {{}, {23}} }

Init ==
    /\ migrations \in IndexedTables
    /\ pc = "idle"
    /\ table_strategy = "None"
    /\ continue_on_error = FALSE
    /\ dry_run = "True"
    /\ max_concurrent_file_copies = 1
    /\ batch_size = ShippedBatchSize
    /\ key = InitialKey
    /\ results = << >>
    /\ migration_fn = "unbound"
    /\ futures = {}
    /\ completed = {}
    /\ return_when = "FIRST_COMPLETED"
    /\ migrated_count = 0
    /\ error_count = 0
    /\ migrated_total = 0
    /\ error_total = 0
    /\ raised = NoException
    /\ calls = << >>
    /\ executed = {}
    /\ table0 = migrations
    /\ file_version_strategy = "new"
    /\ storage_location_owned = TRUE
    /\ storage_location_id = 8
    /\ service = [index |-> {}, copy |-> {}]
    /\ opened = FALSE
    /\ pending = << >>
    /\ stack = << >>
    /\ service_calls = << >>
    /\ indexed_total = 0
    /\ AuxIdle

\* ---------------------------------------------------------- the actions

\* What migrate() sets before the migration phase: the key, the futures and
\* the totals; the rest is not yet bound.
Locals ==
    /\ key' = InitialKey
    /\ futures' = {}
    /\ completed' = {}
    /\ results' = << >>
    /\ migration_fn' = "unbound"
    /\ return_when' = "FIRST_COMPLETED"
    /\ migrated_count' = 0
    /\ error_count' = 0
    /\ migrated_total' = 0
    /\ error_total' = 0
    /\ raised' = NoException

\* A call of migrate() against the db file, whose root container row the
\* table already holds, so that _check_indexed skips the indexing: the
\* locals are set up and, unless dry_run is False, the call returns.
migrate ==
    /\ pc = "idle"
    /\ check_indexed(migrations, 1)
    /\ \E coe \in BOOLEAN, dry \in DryRuns :
          /\ continue_on_error' = coe
          /\ dry_run' = dry
          /\ pc' = IF dry = "False" THEN "loop" ELSE "returned"
    /\ table_strategy' \in TableStrategies
    /\ max_concurrent_file_copies' \in 1..MaxConcurrent
    /\ batch_size' \in ShippedBatchSize..MaxBatch
    /\ Locals
    /\ calls' = << >>
    /\ executed' = {}
    /\ table0' = migrations
    /\ opened' = TRUE
    /\ UNCHANGED << migrations, worldVars, auxVars, walkVars >>

\* migrate() has returned or raised, or was killed, and the process is gone:
\* the db file is what is left for the next call.
Exit ==
    /\ pc \in {"returned", "raised", "killed"}
    /\ pc' = "idle"
    /\ table_strategy' = "None"
    /\ continue_on_error' = FALSE
    /\ dry_run' = "True"
    /\ max_concurrent_file_copies' = 1
    /\ batch_size' = ShippedBatchSize
    /\ Locals
    /\ calls' = << >>
    /\ executed' = {}
    /\ table0' = migrations
    /\ opened' = FALSE
    /\ UNCHANGED << migrations, worldVars, auxVars, walkVars >>

\* The operation the dispatch loop selects for a key.
SelectMigrationFn(k) ==
    IF k.type = FILE
    THEN IF k.version = NULL THEN "_create_new_file_version"
                             ELSE "_migrate_file_version"
    ELSE "_migrate_table_attached_file"

\* executor.submit(migration_task, syn, key, from_file_handle_id, ...): the
\* key and the file handle id are arguments of the task; migration_fn is
\* the operation the task has called, none before it runs.
Submit(k, from_file_handle_id) ==
    [key |-> k, from_file_handle_id |-> from_file_handle_id, state |-> "running",
     to_file_handle_id |-> NULL, exception |-> NoException,
     migration_fn |-> "unbound"]

\* The top of the while loop with fewer than max_concurrent_file_copies
\* futures, or the return of the FIRST_COMPLETED wait: the cursor query.
\* An empty batch breaks out of the loop, to the final wait if futures
\* remain.
Query ==
    /\ \/ pc = "query"
       \/ pc = "loop" /\ Cardinality(futures) < max_concurrent_file_copies
    /\ LET rows == SelectBatch(migrations, key, batch_size)
       IN  /\ results' = rows
           /\ pc' = IF rows # << >> THEN "dispatch"
                    ELSE IF futures # {} THEN "drain" ELSE "returned"
    /\ UNCHANGED << migrations, table_strategy, continue_on_error, dry_run,
                    max_concurrent_file_copies, batch_size, key, migration_fn,
                    futures, completed, return_when, migrated_count, error_count,
                    migrated_total, error_total, raised, calls, executed, table0,
                    opened, worldVars, auxVars, walkVars >>

\* Mutant: the snapshot without "last_key.id != key.id".
NeedsSnapshotEachCell(last_key, k, strategy) ==
    /\ k.type = TABLE_ATTACHED_FILE
    /\ strategy = "snapshot"

\* Whether the dispatch of key k after last_key snapshots k's table first:
\* "if last_key.id != key.id and table_strategy == 'snapshot'", in the
\* TABLE_ATTACHED_FILE branch.
NeedsSnapshot(last_key, k, strategy) ==
    /\ k.type = TABLE_ATTACHED_FILE
    /\ last_key.id # k.id
    /\ strategy = "snapshot"

\* One iteration of "for row in results": the key moves to the row, the
\* operation is selected, a table whose id differs from the last key's is
\* snapshotted under 'snapshot', and the task is submitted.
DispatchRow ==
    /\ pc = "dispatch"
    /\ LET row == Head(results)
           last_key == key
           k == KeyOf(row)
           snapshot == NeedsSnapshot(last_key, k, table_strategy)
       IN  /\ key' = k
           /\ migration_fn' = SelectMigrationFn(k)
           /\ calls' = calls
                \o (IF snapshot THEN << [op |-> "create_snapshot_version", key |-> k] >>
                                ELSE << >>)
                \o << [op |-> "submit", key |-> k] >>
           /\ futures' = futures \cup {Submit(k, row.from_file_handle_id)}
    /\ results' = Tail(results)
    /\ pc' = IF Tail(results) # << >> THEN "dispatch" ELSE "loop"
    /\ UNCHANGED << migrations, table_strategy, continue_on_error, dry_run,
                    max_concurrent_file_copies, batch_size, completed, return_when,
                    migrated_count, error_count, migrated_total, error_total,
                    raised, executed, table0,
                    opened, worldVars, auxVars, walkVars >>

\* A submitted task f runs to its end on a worker thread. migration_task
\* is a closure over the local migration_fn of migrate(), which it reads
\* when it runs: it calls the operation that variable holds then. Whichever
\* operation it calls, the task returns (key, to_file_handle_id) if ok, or
\* raises _MigrationError(key) from the exception of the copy or of the
\* remote mutation.
TaskRuns(f, ok) ==
    /\ f.state = "running"
    /\ futures' = (futures \ {f}) \cup
          { IF ok
            THEN [f EXCEPT !.state = "returned",
                    !.migration_fn = migration_fn,
                    !.to_file_handle_id = multipart_copy(f.from_file_handle_id)]
            ELSE [f EXCEPT !.state = "raised",
                    !.migration_fn = migration_fn,
                    !.exception = MigrationError(f.key,
                        CopyException(f.key, f.from_file_handle_id))] }
    /\ executed' = executed \cup {f.key}
    /\ UNCHANGED << migrations, pc, table_strategy, continue_on_error, dry_run,
                    max_concurrent_file_copies, batch_size, key, results,
                    migration_fn, completed, return_when, migrated_count,
                    error_count, migrated_total, error_total, raised, calls, table0,
                    opened, worldVars, auxVars, walkVars >>

\* A worker thread runs a task while migrate() is running; the copy or the
\* remote mutation may succeed or fail.
RunTask ==
    /\ pc \in {"loop", "query", "dispatch", "drain", "wait_futures"}
    /\ \E f \in futures : \E ok \in BOOLEAN : TaskRuns(f, ok)

\* Mutant: wait() never sees a future done.
DoneNever(fs) == {}

\* concurrent.futures.wait(futures, return_when): the done futures and the
\* others.
Done(fs) == {f \in fs : f.state # "running"}

\* The top of the while loop with max_concurrent_file_copies futures or
\* more: _wait_futures(FIRST_COMPLETED) blocks until a future is done.
WaitFirstCompleted ==
    /\ pc = "loop"
    /\ Cardinality(futures) >= max_concurrent_file_copies
    /\ Done(futures) # {}
    /\ completed' = Done(futures)
    /\ futures' = futures \ Done(futures)
    /\ return_when' = "FIRST_COMPLETED"
    /\ migrated_count' = 0
    /\ error_count' = 0
    /\ pc' = "wait_futures"
    /\ UNCHANGED << migrations, table_strategy, continue_on_error, dry_run,
                    max_concurrent_file_copies, batch_size, key, results,
                    migration_fn, migrated_total, error_total, raised, calls,
                    executed, table0,
                    opened, worldVars, auxVars, walkVars >>

\* After the loop, with futures left: _wait_futures(ALL_COMPLETED) blocks
\* until every future is done.
WaitAllCompleted ==
    /\ pc = "drain"
    /\ Done(futures) = futures
    /\ completed' = futures
    /\ futures' = {}
    /\ return_when' = "ALL_COMPLETED"
    /\ migrated_count' = 0
    /\ error_count' = 0
    /\ pc' = "wait_futures"
    /\ UNCHANGED << migrations, table_strategy, continue_on_error, dry_run,
                    max_concurrent_file_copies, batch_size, key, results,
                    migration_fn, migrated_total, error_total, raised, calls,
                    executed, table0,
                    opened, worldVars, auxVars, walkVars >>

\* Mutant: the _MigrationError itself is re-raised.
ReraisedWrapper(f, coe) ==
    IF f.state = "raised" /\ ~coe THEN f.exception ELSE NoException

\* Mutant: the cause is re-raised whatever continue_on_error is.
ReraisedAlways(f, coe) ==
    IF f.state = "raised" THEN Cause(f.exception) ELSE NoException

\* The exception _wait_futures raises for a completed future, if any:
\* "if not continue_on_error and ex: raise ex from None", ex being the cause
\* of the _MigrationError.
Reraised(f, coe) ==
    IF f.state = "raised" /\ ~coe THEN Cause(f.exception) ELSE NoException

\* Mutant: the update of a completed future is not committed.
OutcomeNotCommitted(db, f) ==
    db

\* The row update for one completed future.
Outcome(db, f) ==
    IF f.state = "returned"
    THEN UpdateOutcome(db, f.key, MIGRATED, f.to_file_handle_id, NULL)
    ELSE UpdateOutcome(db, f.exception.key, ERRORED, NULL,
                       FormatException(Cause(f.exception)))

\* One iteration of "for completed_future in completed" (a set: any order):
\* the row of the future's key is updated and committed; then the cause is
\* re-raised, or the loop goes on and, at its end, _wait_futures returns and
\* the counts are added to the totals.
ProcessCompleted ==
    /\ pc = "wait_futures"
    /\ \E f \in completed :
          LET ex == Reraised(f, continue_on_error)
              m == migrated_count + (IF f.state = "returned" THEN 1 ELSE 0)
              e == error_count + (IF f.state = "raised" THEN 1 ELSE 0)
              last == completed = {f}
          IN  /\ migrations' = Outcome(migrations, f)
              /\ completed' = completed \ {f}
              /\ migrated_count' = m
              /\ error_count' = e
              /\ raised' = ex
              /\ pc' = IF ex # NoException THEN "raised"
                       ELSE IF ~last THEN "wait_futures"
                       ELSE IF return_when = "FIRST_COMPLETED" THEN "query"
                       ELSE "returned"
              /\ migrated_total' = IF ex = NoException /\ last
                                   THEN migrated_total + m ELSE migrated_total
              /\ error_total' = IF ex = NoException /\ last
                                THEN error_total + e ELSE error_total
    /\ UNCHANGED << table_strategy, continue_on_error, dry_run,
                    max_concurrent_file_copies, batch_size, key, results,
                    migration_fn, futures, return_when, calls, executed, table0,
                    opened, worldVars, auxVars, walkVars >>

\* The process is killed while migrate() runs, the worker threads with it:
\* what the connection had not committed is lost, the db file keeps the
\* committed rows. The tasks as they were at that moment stay on record.
Kill ==
    /\ pc \in {"index", "loop", "query", "dispatch", "drain", "wait_futures"}
    /\ pc' = "killed"
    /\ pending' = << >>
    /\ stack' = << >>
    /\ key' = InitialKey
    /\ results' = << >>
    /\ migration_fn' = "unbound"
    /\ return_when' = "FIRST_COMPLETED"
    /\ migrated_count' = 0
    /\ error_count' = 0
    /\ migrated_total' = 0
    /\ error_total' = 0
    /\ UNCHANGED << migrations, table_strategy, continue_on_error, dry_run,
                    max_concurrent_file_copies, batch_size, futures, completed,
                    raised, calls, executed, table0, opened, worldVars, auxVars,
                    service_calls, indexed_total >>

Next ==
    \/ migrate
    \/ Query
    \/ DispatchRow
    \/ RunTask
    \/ WaitFirstCompleted
    \/ WaitAllCompleted
    \/ ProcessCompleted
    \/ Exit

Spec == Init /\ [][Next]_vars

\* The same calls where the thread of migrate() keeps running, its blocking
\* wait returning once its condition holds, and every submitted task
\* eventually runs to its end on a worker thread.
SpecFair ==
    /\ Init /\ [][Next]_vars
    /\ WF_vars(Query)
    /\ WF_vars(DispatchRow)
    /\ WF_vars(WaitFirstCompleted)
    /\ WF_vars(WaitAllCompleted)
    /\ WF_vars(ProcessCompleted)
    /\ WF_vars(RunTask)

\* The same calls, any of which may be killed.
NextKill ==
    \/ Next
    \/ Kill

SpecKill == Init /\ [][NextKill]_vars

\* ------------------------------------------- the calls with their indexing

\* The states before the first call on a project: no db file yet, the
\* caller's strategies and continue_on_error (the same for every call) and
\* what the entity service fails.
InitIndex ==
    /\ migrations = << >>
    /\ pc = "idle"
    /\ table_strategy \in AllTableStrategies
    /\ file_version_strategy \in FileVersionStrategies
    /\ continue_on_error \in BOOLEAN
    /\ storage_location_owned = TRUE
    /\ storage_location_id = 8
    /\ service \in Services
    /\ dry_run = "True"
    /\ max_concurrent_file_copies = 1
    /\ batch_size = ShippedBatchSize
    /\ key = InitialKey
    /\ results = << >>
    /\ migration_fn = "unbound"
    /\ futures = {}
    /\ completed = {}
    /\ return_when = "FIRST_COMPLETED"
    /\ migrated_count = 0
    /\ error_count = 0
    /\ migrated_total = 0
    /\ error_total = 0
    /\ raised = NoException
    /\ calls = << >>
    /\ executed = {}
    /\ table0 = migrations
    /\ opened = FALSE
    /\ pending = << >>
    /\ stack = << >>
    /\ service_calls = << >>
    /\ indexed_total = 0
    /\ AuxIdle

\* The frame of an _index_entity call on a container, or of migrate()
\* itself (id NULL): the children still to index and the count so far.
Frame(id, parent_id, children) ==
    [id |-> id, parent_id |-> parent_id, children |-> children, total |-> 0]

\* Mutant: "if not dry_run".
AfterIndexFalsy(dry) == IF dry = "True" THEN "returned" ELSE "loop"

\* "if dry_run is False": where migrate() goes once the index is complete.
AfterIndex(dry) == IF dry = "False" THEN "loop" ELSE "returned"

\* A call of migrate(): the arguments are validated, the service telling
\* whether the caller owns the storage location; then the db file is
\* connected to, the schema ensured, and the root entity indexed unless
\* _check_indexed finds it.
Start ==
    /\ pc = "idle"
    /\ dry_run' \in DryRuns
    /\ max_concurrent_file_copies' \in 1..MaxConcurrent
    /\ batch_size' = ShippedBatchSize
    /\ storage_location_owned' \in BOOLEAN
    /\ LET ex == Validation(file_version_strategy, table_strategy,
                            storage_location_owned')
       IN  /\ raised' = ex
           /\ opened' = (ex = NoException)
           /\ stack' = IF ex = NoException /\ ~check_indexed(migrations, Root)
                       THEN << Frame(NULL, NULL, << Root >>) >>
                       ELSE << >>
           /\ pc' = IF ex # NoException THEN "raised"
                    ELSE IF ~check_indexed(migrations, Root) THEN "index"
                    ELSE AfterIndex(dry_run')
    /\ key' = InitialKey
    /\ futures' = {}
    /\ completed' = {}
    /\ results' = << >>
    /\ migration_fn' = "unbound"
    /\ return_when' = "FIRST_COMPLETED"
    /\ migrated_count' = 0
    /\ error_count' = 0
    /\ migrated_total' = 0
    /\ error_total' = 0
    /\ calls' = << >>
    /\ executed' = {}
    /\ table0' = migrations
    /\ pending' = << >>
    /\ service_calls' = << >>
    /\ indexed_total' = 0
    /\ UNCHANGED << migrations, table_strategy, continue_on_error,
                    file_version_strategy, storage_location_id, service,
                    auxVars >>

\* the stack with its innermost frame replaced by the frames fs
Replaced(fs) == SubSeq(stack, 1, Len(stack) - 1) \o fs

\* Mutant: the exception is swallowed whatever continue_on_error is.
PropagatesNever(coe) == FALSE

\* "if not continue_on_error: raise" in the except clause of _index_entity
Propagates(coe) == ~coe

\* _index_entity on the next child of the innermost frame. An entity with a
\* row is skipped; a file or a table gets its rows inserted; a container
\* has its children listed and becomes the innermost frame. Success ends
\* in conn.commit(); an exception leaves what was inserted uncommitted and
\* is swallowed under continue_on_error, or else propagates out of
\* migrate(), whose connection rolls back.
IndexEntity ==
    /\ pc = "index"
    /\ stack[Len(stack)].children # << >>
    /\ LET top == stack[Len(stack)]
           entity_id == Head(top.children)
           rest == [top EXCEPT !.children = Tail(@)]
           type == ConcreteType(entity_id)
           container == type \in {"project", "folder"}
           indexed == check_indexed(migrations \o pending, entity_id)
           res == IF indexed THEN [rows |-> << >>, raised |-> NoException]
                  ELSE IF type = "file"
                  THEN index_file_entity(entity_id, top.id, file_version_strategy,
                                         service.index)
                  ELSE IF type = "table"
                  THEN index_table_entity(entity_id, top.id, batch_size,
                                          service.index)
                  ELSE [rows |-> << >>,
                        raised |-> IF entity_id \in service.index
                                   THEN ServiceError(entity_id) ELSE NoException]
           ins == executemany_insert(migrations \o pending, res.rows)
           ex == IF ins.raised # NoException THEN ins.raised ELSE res.raised
           ok == ex = NoException
       IN  /\ service_calls' = IF indexed THEN service_calls
                               ELSE Append(service_calls, entity_id)
           /\ IF ok /\ container /\ ~indexed
              THEN /\ stack' = Replaced(<< rest,
                         Frame(entity_id, top.id,
                               getChildren(entity_id,
                                   IncludeTypes(file_version_strategy, table_strategy))) >>)
                   /\ UNCHANGED << migrations, pending, pc, raised >>
              ELSE IF ok
              THEN /\ migrations' = ins.db
                   /\ pending' = << >>
                   /\ stack' = Replaced(<< [rest EXCEPT !.total = @ + Len(res.rows)] >>)
                   /\ UNCHANGED << pc, raised >>
              ELSE IF ~Propagates(continue_on_error)
              THEN /\ pending' = SubSeq(ins.db, Len(migrations) + 1, Len(ins.db))
                   /\ stack' = Replaced(<< rest >>)
                   /\ UNCHANGED << migrations, pc, raised >>
              ELSE /\ pending' = << >>
                   /\ stack' = << >>
                   /\ pc' = "raised"
                   /\ raised' = ex
                   /\ UNCHANGED migrations
    /\ UNCHANGED << table_strategy, continue_on_error, dry_run,
                    max_concurrent_file_copies, batch_size, key, results,
                    migration_fn, futures, completed, return_when, migrated_count,
                    error_count, migrated_total, error_total, calls, executed,
                    table0, opened, worldVars, auxVars, indexed_total >>

\* The children of the innermost container are done: _index_container
\* inserts the container's row and returns, and its _index_entity commits.
IndexContainerDone ==
    /\ pc = "index"
    /\ Len(stack) > 1
    /\ stack[Len(stack)].children = << >>
    /\ LET top == stack[Len(stack)]
           parent == stack[Len(stack) - 1]
           row == IndexedRow(top.id,
                             IF ConcreteType(top.id) = "project" THEN PROJECT
                                                                 ELSE FOLDER,
                             NULL, NULL, NULL, top.parent_id, NULL, NULL)
       IN  /\ migrations' = executemany_insert(migrations \o pending, << row >>).db
           /\ pending' = << >>
           /\ stack' = SubSeq(stack, 1, Len(stack) - 2)
                         \o << [parent EXCEPT !.total = @ + top.total] >>
    /\ UNCHANGED << pc, table_strategy, continue_on_error, dry_run,
                    max_concurrent_file_copies, batch_size, key, results,
                    migration_fn, futures, completed, return_when, migrated_count,
                    error_count, migrated_total, error_total, raised, calls,
                    executed, table0, opened, worldVars, auxVars, service_calls,
                    indexed_total >>

\* _index_entity has returned to migrate(): the count joins indexed_total
\* and, unless dry_run is False, migrate() returns and its connection
\* commits.
IndexDone ==
    /\ pc = "index"
    /\ Len(stack) = 1
    /\ stack[1].children = << >>
    /\ indexed_total' = indexed_total + stack[1].total
    /\ stack' = << >>
    /\ pc' = AfterIndex(dry_run)
    /\ IF dry_run = "False"
       THEN UNCHANGED << migrations, pending >>
       ELSE migrations' = migrations \o pending /\ pending' = << >>
    /\ UNCHANGED << table_strategy, continue_on_error, dry_run,
                    max_concurrent_file_copies, batch_size, key, results,
                    migration_fn, futures, completed, return_when, migrated_count,
                    error_count, migrated_total, error_total, raised, calls,
                    executed, table0, opened, worldVars, auxVars, service_calls >>

\* A worker thread runs a task while migrate() is running; the copy fails
\* for the file handles the service fails to copy.
RunTaskService ==
    /\ pc \in {"loop", "query", "dispatch", "drain", "wait_futures"}
    /\ \E f \in futures : TaskRuns(f, f.from_file_handle_id \notin service.copy)

\* migrate() has returned or raised, or was killed, and the process is gone:
\* the db file is left for the caller's next call, with the same arguments.
ExitCall ==
    /\ pc \in {"returned", "raised", "killed"}
    /\ pc' = "idle"
    /\ dry_run' = "True"
    /\ max_concurrent_file_copies' = 1
    /\ batch_size' = ShippedBatchSize
    /\ Locals
    /\ calls' = << >>
    /\ executed' = {}
    /\ table0' = migrations
    /\ opened' = FALSE
    /\ pending' = << >>
    /\ stack' = << >>
    /\ service_calls' = << >>
    /\ indexed_total' = 0
    /\ storage_location_owned' = TRUE
    /\ UNCHANGED << migrations, table_strategy, continue_on_error,
                    file_version_strategy, storage_location_id, service,
                    auxVars >>

NextIndex ==
    \/ Start
    \/ IndexEntity
    \/ IndexContainerDone
    \/ IndexDone
    \/ Query
    \/ DispatchRow
    \/ RunTaskService
    \/ WaitFirstCompleted
    \/ WaitAllCompleted
    \/ ProcessCompleted
    \/ Kill
    \/ ExitCall

SpecIndex == InitIndex /\ [][NextIndex]_vars

\* The states before the first call on a project whose payloads are all in
\* storage location 7, the calls being made with storage_location_id 7 by
\* its owner, under table_strategy 'snapshot' and a file version strategy,
\* the entity service answering every indexing call.
InitTarget ==
    /\ migrations = << >>
    /\ pc = "idle"
    /\ table_strategy = "snapshot"
    /\ file_version_strategy \in {"new", "all"}
    /\ continue_on_error \in BOOLEAN
    /\ storage_location_owned = TRUE
    /\ storage_location_id = 7
    /\ service \in {sv \in Services : sv.index = {}}
    /\ dry_run = "True"
    /\ max_concurrent_file_copies = 1
    /\ batch_size = ShippedBatchSize
    /\ key = InitialKey
    /\ results = << >>
    /\ migration_fn = "unbound"
    /\ futures = {}
    /\ completed = {}
    /\ return_when = "FIRST_COMPLETED"
    /\ migrated_count = 0
    /\ error_count = 0
    /\ migrated_total = 0
    /\ error_total = 0
    /\ raised = NoException
    /\ calls = << >>
    /\ executed = {}
    /\ table0 = migrations
    /\ opened = FALSE
    /\ pending = << >>
    /\ stack = << >>
    /\ service_calls = << >>
    /\ indexed_total = 0
    /\ AuxIdle

SpecTarget == InitTarget /\ [][NextIndex]_vars

\* ------------------------------------------- the indexers called directly

\* _index_file_entity or _index_table_entity is called for an entity on a
\* connection to the table, with no _check_indexed before it, and what it
\* inserted is committed. The call of the service with the file handle id
\* None of an empty cell raises or returns a file handle with no id, as the
\* service answers; service_calls holds the file handle ids looked up.
IndexAgain ==
    /\ pc \in {"idle", "returned", "raised"}
    /\ Len(migrations) < MaxPayloadRows + 3
    /\ \E entity_id \in {2, 3, 4, 6}, file_strategy \in {"new", "all"},
          failing \in {{}, {NULL}} :
          LET is_file == ConcreteType(entity_id) = "file"
              res == IF is_file
                     THEN index_file_entity(entity_id, Root, file_strategy, failing)
                     ELSE index_table_entity(entity_id, Root, batch_size, failing)
              ins == executemany_insert(migrations, res.rows)
              ex == IF ins.raised # NoException THEN ins.raised ELSE res.raised
          IN  /\ migrations' = ins.db
              /\ raised' = ex
              /\ pc' = IF ex = NoException THEN "returned" ELSE "raised"
              /\ service_calls' = IF is_file THEN << >> ELSE res.lookups
    /\ UNCHANGED << table_strategy, continue_on_error, dry_run,
                    max_concurrent_file_copies, batch_size, key, results,
                    migration_fn, futures, completed, return_when, migrated_count,
                    error_count, migrated_total, error_total, calls, executed,
                    table0, opened, worldVars, auxVars, pending, stack, indexed_total >>

NextInsert ==
    \/ IndexAgain

SpecInsert == Init /\ [][NextInsert]_vars

\* ------------------------------------------------ the MigrationResult

\* _MigrationStatus(status).name
StatusName(status) ==
    IF status = INDEXED THEN "INDEXED"
    ELSE IF status = MIGRATED THEN "MIGRATED"
    ELSE IF status = ALREADY_MIGRATED THEN "ALREADY_MIGRATED"
    ELSE "ERRORED"

\* The name the service gives for a column id: restGET("/column/{col_id}").
ColumnName(col_id) == col_id + 200

\* Mutant: the select without "and type in (?, ?)".
ResultBatchAnyType(db, after, limit) ==
    LET rows == [i \in DOMAIN db |-> [rowid |-> i, row |-> db[i]]]
        matching == SelectSeq(rows, LAMBDA x : x.rowid > after)
    IN  SubSeq(matching, 1, IF Len(matching) < limit THEN Len(matching) ELSE limit)

\* The select of get_migrations: the rows of type FILE or
\* TABLE_ATTACHED_FILE with rowid > ?, ordered by rowid, limit ?. The rowid
\* of a row is its place in the table, no row being deleted.
ResultBatch(db, after, limit) ==
    LET rows == [i \in DOMAIN db |-> [rowid |-> i, row |-> db[i]]]
        matching == SelectSeq(rows, LAMBDA x :
                        /\ x.rowid > after
                        /\ x.row.type \in {FILE, TABLE_ATTACHED_FILE})
    IN  SubSeq(matching, 1, IF Len(matching) < limit THEN Len(matching) ELSE limit)

\* The row_dict get_migrations builds of a selected row: the columns
\* without the rowid, a column that is None having no entry (NULL here);
\* type as 'file' or 'table', col_id replaced by the column's name, status
\* by its enum name.
RowDict(row) ==
    [id |-> row.id,
     type |-> IF row.type = FILE THEN "file" ELSE "table",
     version |-> row.version,
     row_id |-> row.row_id,
     col_name |-> IF row.col_id = NULL THEN NULL ELSE ColumnName(row.col_id),
     from_storage_location_id |-> row.from_storage_location_id,
     from_file_handle_id |-> row.from_file_handle_id,
     to_file_handle_id |-> row.to_file_handle_id,
     status |-> StatusName(row.status),
     exception |-> row.exception]

\* A row as _wait_futures leaves it with the given status.
WithOutcome(r, status) ==
    IF r.type \notin {FILE, TABLE_ATTACHED_FILE} \/ status = INDEXED THEN r
    ELSE IF status = MIGRATED
    THEN [r EXCEPT !.status = MIGRATED,
                   !.to_file_handle_id = multipart_copy(r.from_file_handle_id)]
    ELSE [r EXCEPT !.status = ERRORED,
                   !.exception = FormatException(
                       CopyException(KeyOf(r), r.from_file_handle_id))]

\* The tables calls of migrate() can leave: an indexed table with each
\* FILE or TABLE_ATTACHED_FILE row INDEXED, MIGRATED or ERRORED.
ResultTables ==
    UNION { { [i \in DOMAIN t |-> WithOutcome(t[i], st[i])] :
                st \in [DOMAIN t -> {INDEXED, MIGRATED, ERRORED}] } :
            t \in IndexedTables }

\* migrate() has returned a MigrationResult over db_path, and nothing
\* writes the db file any more.
InitResult ==
    /\ migrations \in ResultTables
    /\ pc = "returned"
    /\ table_strategy = "None"
    /\ continue_on_error = FALSE
    /\ dry_run = "True"
    /\ max_concurrent_file_copies = 1
    /\ batch_size \in ShippedBatchSize..MaxBatch
    /\ key = InitialKey
    /\ results = << >>
    /\ migration_fn = "unbound"
    /\ futures = {}
    /\ completed = {}
    /\ return_when = "FIRST_COMPLETED"
    /\ migrated_count = 0
    /\ error_count = 0
    /\ migrated_total = 0
    /\ error_total = 0
    /\ raised = NoException
    /\ calls = << >>
    /\ executed = {}
    /\ table0 = migrations
    /\ file_version_strategy = "new"
    /\ storage_location_owned = TRUE
    /\ storage_location_id = 8
    /\ service = [index |-> {}, copy |-> {}]
    /\ opened = FALSE
    /\ pending = << >>
    /\ stack = << >>
    /\ service_calls = << >>
    /\ indexed_total = 0
    /\ AuxIdle

\* The caller starts to iterate result.get_migrations(): "rowid = -1".
get_migrations ==
    /\ pc = "returned"
    /\ rowid' = -1
    /\ row_dicts' = << >>
    /\ results' = << >>
    /\ pc' = "select"
    /\ UNCHANGED << migrations, table_strategy, continue_on_error, dry_run,
                    max_concurrent_file_copies, batch_size, key, migration_fn,
                    futures, completed, return_when, migrated_count, error_count,
                    migrated_total, error_total, raised, calls, executed, table0,
                    opened, worldVars, walkVars, poolVars, progressVars >>

\* The top of "while True" in get_migrations: the next batch is selected;
\* "if row_count == 0: break" ends the iteration on an empty batch.
SelectResults ==
    /\ pc = "select"
    /\ results' = ResultBatch(migrations, rowid, batch_size)
    /\ pc' = IF results' = << >> THEN "exhausted" ELSE "yield"
    /\ UNCHANGED << migrations, table_strategy, continue_on_error, dry_run,
                    max_concurrent_file_copies, batch_size, key, migration_fn,
                    futures, completed, return_when, migrated_count, error_count,
                    migrated_total, error_total, raised, calls, executed, table0,
                    opened, worldVars, walkVars, auxVars >>

\* One iteration of "for row in results" in get_migrations: rowid moves to
\* the row and its row_dict is yielded.
YieldRow ==
    /\ pc = "yield"
    /\ rowid' = Head(results).rowid
    /\ row_dicts' = Append(row_dicts, RowDict(Head(results).row))
    /\ results' = Tail(results)
    /\ pc' = IF Tail(results) = << >> THEN "select" ELSE "yield"
    /\ UNCHANGED << migrations, table_strategy, continue_on_error, dry_run,
                    max_concurrent_file_copies, batch_size, key, migration_fn,
                    futures, completed, return_when, migrated_count, error_count,
                    migrated_total, error_total, raised, calls, executed, table0,
                    opened, worldVars, walkVars, poolVars, progressVars >>

NextResult ==
    \/ get_migrations
    \/ SelectResults
    \/ YieldRow

\* The iteration of a caller that consumes the generator to its end.
SpecResult ==
    /\ InitResult /\ [][NextResult]_vars
    /\ WF_vars(SelectResults)
    /\ WF_vars(YieldRow)

\* ------------------------------------------------ the shared executor

\* the variables of a call of migrate() and of its MigrationResult
engineVars ==
    << migrations, pc, table_strategy, continue_on_error, dry_run,
       max_concurrent_file_copies, batch_size, key, results, migration_fn,
       futures, completed, return_when, migrated_count, error_count,
       migrated_total, error_total, raised, calls, executed, table0, opened,
       worldVars, walkVars, rowid, row_dicts >>

\* their values where no call is going on, against a db file not yet made
EngineIdle ==
    /\ migrations = << >>
    /\ pc = "idle"
    /\ table_strategy = "None"
    /\ continue_on_error = FALSE
    /\ dry_run = "True"
    /\ batch_size = ShippedBatchSize
    /\ key = InitialKey
    /\ results = << >>
    /\ migration_fn = "unbound"
    /\ futures = {}
    /\ completed = {}
    /\ return_when = "FIRST_COMPLETED"
    /\ migrated_count = 0
    /\ error_count = 0
    /\ migrated_total = 0
    /\ error_total = 0
    /\ raised = NoException
    /\ calls = << >>
    /\ executed = {}
    /\ table0 = << >>
    /\ file_version_strategy = "new"
    /\ storage_location_owned = TRUE
    /\ storage_location_id = 8
    /\ service = [index |-> {}, copy |-> {}]
    /\ opened = FALSE
    /\ pending = << >>
    /\ stack = << >>
    /\ service_calls = << >>
    /\ indexed_total = 0
    /\ rowid = -1
    /\ row_dicts = << >>

\* _get_executor: max(int(pool_provider.DEFAULT_NUM_THREADS / 2), 1)
get_executor(num_threads) ==
    IF num_threads \div 2 > 1 THEN num_threads \div 2 ELSE 1

\* the threads of the pool that run something: a migration task, which
\* keeps its thread while its multipart_copy waits for the part it
\* submitted to the same pool, or a part copy
BusyThreads ==
    Cardinality({t \in DOMAIN pool_tasks : pool_tasks[t] = "copying"})
        + Cardinality({t \in DOMAIN pool_parts : pool_parts[t] = "running"})

\* migrate() is called where the pool has thread_count threads.
InitPool ==
    /\ EngineIdle
    /\ thread_count \in 1..MaxThreads
    /\ max_concurrent_file_copies = get_executor(thread_count)
    /\ pool_tasks = [t \in 1..MaxPoolTasks |-> "unsubmitted"]
    /\ pool_parts = [t \in 1..MaxPoolTasks |-> "none"]
    /\ ProgressIdle

\* The dispatch loop submits the next migration task to the executor, with
\* fewer than max_concurrent_file_copies futures not done (a wait for the
\* first completed future has removed those that are done).
PoolSubmit ==
    /\ \E t \in DOMAIN pool_tasks :
          /\ pool_tasks[t] = "unsubmitted"
          /\ \A u \in 1..(t - 1) : pool_tasks[u] # "unsubmitted"
          /\ Cardinality({u \in DOMAIN pool_tasks :
                            pool_tasks[u] \in {"queued", "copying"}})
                < max_concurrent_file_copies
          /\ pool_tasks' = [pool_tasks EXCEPT ![t] = "queued"]
    /\ UNCHANGED << engineVars, thread_count, pool_parts, progressVars >>

\* A free thread of the pool takes a queued migration task; inside
\* shared_executor(executor) its multipart_copy submits the part copy to
\* the same pool and waits for it.
PoolRunTask ==
    /\ BusyThreads < thread_count
    /\ \E t \in DOMAIN pool_tasks :
          /\ pool_tasks[t] = "queued"
          /\ pool_tasks' = [pool_tasks EXCEPT ![t] = "copying"]
          /\ pool_parts' = [pool_parts EXCEPT ![t] = "queued"]
    /\ UNCHANGED << engineVars, thread_count, progressVars >>

\* A free thread of the pool takes a queued part copy.
PoolRunPart ==
    /\ BusyThreads < thread_count
    /\ \E t \in DOMAIN pool_parts :
          /\ pool_parts[t] = "queued"
          /\ pool_parts' = [pool_parts EXCEPT ![t] = "running"]
    /\ UNCHANGED << engineVars, thread_count, pool_tasks, progressVars >>

\* A part copy ends and its thread is free.
PoolPartDone ==
    /\ \E t \in DOMAIN pool_parts :
          /\ pool_parts[t] = "running"
          /\ pool_parts' = [pool_parts EXCEPT ![t] = "done"]
    /\ UNCHANGED << engineVars, thread_count, pool_tasks, progressVars >>

\* The part of a migration task is copied: multipart_copy returns, the task
\* ends and its thread is free.
PoolTaskDone ==
    /\ \E t \in DOMAIN pool_tasks :
          /\ pool_tasks[t] = "copying"
          /\ pool_parts[t] = "done"
          /\ pool_tasks' = [pool_tasks EXCEPT ![t] = "done"]
    /\ UNCHANGED << engineVars, thread_count, pool_parts, progressVars >>

NextPool ==
    \/ PoolSubmit
    \/ PoolRunTask
    \/ PoolRunPart
    \/ PoolPartDone
    \/ PoolTaskDone

SpecPool == InitPool /\ [][NextPool]_vars

\* ------------------------------------------- the cumulative transfer progress

\* self._thread_totals.get(thread_id, 0)
ThreadTotal(totals, thread_id) ==
    IF totals[thread_id] = NULL THEN 0 ELSE totals[thread_id]

\* a finally clause that leaves the thread's entry in place
PoppedNothing(totals, thread_id) == totals

\* self._thread_totals.pop(threading.get_ident(), None)
Popped(totals, thread_id) == [totals EXCEPT ![thread_id] = NULL]

\* A CumulativeTransferProgress just constructed, writing to a terminal or not,
\* beside an idle engine and an idle pool.
InitProgress ==
    /\ EngineIdle
    /\ thread_count = MaxThreads
    /\ max_concurrent_file_copies = get_executor(thread_count)
    /\ pool_tasks = [t \in 1..MaxPoolTasks |-> "unsubmitted"]
    /\ pool_parts = [t \in 1..MaxPoolTasks |-> "none"]
    /\ isatty \in BOOLEAN
    /\ lock = 0
    /\ total_transferred = 0
    /\ thread_totals = [t \in 1..MaxTransferThreads |-> NULL]
    /\ transfer = [t \in 1..MaxTransferThreads |->
                      [pc |-> "outside", transferred |-> 0]]
    /\ started = 0
    /\ finished_total = 0
    /\ last_reported = [t \in 1..MaxTransferThreads |-> 0]

\* A thread enters accumulate_progress to run its next transfer.
accumulate_progress ==
    /\ started < MaxTransfers
    /\ \E t \in DOMAIN transfer :
          /\ transfer[t].pc = "outside"
          /\ transfer' = [transfer EXCEPT ![t].pc = "inside"]
    /\ started' = started + 1
    /\ UNCHANGED << engineVars, poolVars, isatty, lock, total_transferred,
                    thread_totals, finished_total, last_reported >>

\* A thread in a transfer calls printTransferProgress(transferred, ...): the
\* call returns at once when standard output is no terminal, and otherwise
\* waits for the lock.
printTransferProgress ==
    /\ isatty
    /\ lock = 0
    /\ \E t \in DOMAIN transfer, transferred \in 1..MaxTransferred :
          /\ transfer[t].pc = "inside"
          /\ lock' = t
          /\ transfer' = [transfer EXCEPT
                             ![t] = [pc |-> "locked", transferred |-> transferred]]
    /\ UNCHANGED << engineVars, poolVars, isatty, total_transferred,
                    thread_totals, started, finished_total, last_reported >>

\* Holding the lock, the call adds what the thread has not yet reported to
\* the total, remembers the thread's value and releases the lock.
AccumulateTransferred ==
    /\ \E t \in DOMAIN transfer :
          /\ transfer[t].pc = "locked"
          /\ lock = t
          /\ LET already_transferred_by_thread == ThreadTotal(thread_totals, t)
             IN  total_transferred' = total_transferred
                     + (transfer[t].transferred - already_transferred_by_thread)
          /\ thread_totals' = [thread_totals EXCEPT ![t] = transfer[t].transferred]
          /\ last_reported' = [last_reported EXCEPT ![t] = transfer[t].transferred]
          /\ transfer' = [transfer EXCEPT ![t].pc = "inside"]
    /\ lock' = 0
    /\ UNCHANGED << engineVars, poolVars, isatty, started, finished_total >>

\* The transfer ends and the thread leaves accumulate_progress: the finally
\* clause removes the thread's entry, without taking the lock.
ExitProgress ==
    /\ \E t \in DOMAIN transfer :
          /\ transfer[t].pc = "inside"
          /\ thread_totals' = Popped(thread_totals, t)
          /\ finished_total' = finished_total + last_reported[t]
          /\ last_reported' = [last_reported EXCEPT ![t] = 0]
          /\ transfer' = [transfer EXCEPT
                             ![t] = [pc |-> "outside", transferred |-> 0]]
    /\ UNCHANGED << engineVars, poolVars, isatty, lock, total_transferred,
                    started >>

NextProgress ==
    \/ accumulate_progress
    \/ printTransferProgress
    \/ AccumulateTransferred
    \/ ExitProgress

SpecProgress == InitProgress /\ [][NextProgress]_vars

\* ----------------------------------------------------------- the claims

\* The keys submitted to the executor by the current call, in order.
SubmittedKeys ==
    LET submits == SelectSeq(calls, LAMBDA c : c.op = "submit")
    IN  [n \in DOMAIN submits |-> submits[n].key]

\* The table ids snapshotted by the current call, in order.
SnapshotCalls == SelectSeq(calls, LAMBDA c : c.op = "create_snapshot_version")

\* The composite order (id, type, row_id, col_id, version) on keys, an
\* absent field being the minimum.
Field(x) == IF x = NULL THEN 0 ELSE x
KeyTuple(k) == << k.id, k.type, Field(k.row_id), Field(k.col_id), Field(k.version) >>
KeyLess(a, b) ==
    \E n \in 1..5 : /\ \A m \in 1..(n - 1) : KeyTuple(a)[m] = KeyTuple(b)[m]
                    /\ KeyTuple(a)[n] < KeyTuple(b)[n]

IsPayload(r) == r.type \in {FILE, TABLE_ATTACHED_FILE}
Rows(t) == {t[i] : i \in DOMAIN t}
\* how many times key k was submitted by the current call
TimesSubmitted(k) == Cardinality({n \in DOMAIN SubmittedKeys : SubmittedKeys[n] = k})
Completes == pc = "returned" /\ dry_run = "False"

\* C1: within one call, the keys submitted to the executor are strictly
\* ascending in the composite order (id, type, row_id, col_id, version) with
\* an absent field as the minimum, whatever the table holds and whatever
\* the batch size is.
C1_DispatchAscending ==
    \A m, n \in DOMAIN SubmittedKeys :
        m < n => KeyLess(SubmittedKeys[m], SubmittedKeys[n])

\* A call with a batch of two rows has submitted three keys, of a file's
\* versions and of a table's cell.
C1_Witness ==
    /\ batch_size = 2
    /\ Len(SubmittedKeys) = 3
    /\ \E m, n \in DOMAIN SubmittedKeys :
          /\ SubmittedKeys[m].type = FILE /\ SubmittedKeys[m].version # NULL
          /\ SubmittedKeys[n].type = TABLE_ATTACHED_FILE

\* C2: no key is submitted twice by one call and only rows pending at its
\* start are submitted; when the call returns from the migration phase,
\* every FILE or TABLE_ATTACHED_FILE row that was INDEXED at its start has
\* been submitted exactly once.
C2_EachPendingRowOnce ==
    /\ \A n \in DOMAIN SubmittedKeys :
          /\ TimesSubmitted(SubmittedKeys[n]) = 1
          /\ \E r \in Rows(table0) :
                KeyOf(r) = SubmittedKeys[n] /\ IsPayload(r) /\ r.status = INDEXED
    /\ Completes =>
          \A r \in Rows(table0) :
              IsPayload(r) /\ r.status = INDEXED => TimesSubmitted(KeyOf(r)) = 1

\* A call has returned from the migration phase of a table that held three
\* pending cells of one table, two of them in the same table row.
C2_Witness ==
    /\ Completes
    /\ Cardinality({r \in Rows(table0) :
            r.type = TABLE_ATTACHED_FILE /\ r.status = INDEXED /\ r.id = 2}) = 3
    /\ Len(SubmittedKeys) = 3

\* C3: a row that was MIGRATED when a call started is never submitted by
\* that call, no task copies it, and the row is what it was.
C3_MigratedNeverRedone ==
    \A i \in DOMAIN table0 :
        table0[i].status = MIGRATED =>
            /\ TimesSubmitted(KeyOf(table0[i])) = 0
            /\ KeyOf(table0[i]) \notin executed
            /\ migrations[i] = table0[i]

\* A re-run has returned from the migration phase, having submitted a row,
\* against a table that held a MIGRATED row at its start.
C3_Witness ==
    /\ Completes
    /\ Len(SubmittedKeys) > 0
    /\ \E r \in Rows(table0) : r.status = MIGRATED

\* C4 (as claimed): a row left ERRORED by one call is retried by the next
\* call that is not a dry run: when such a call returns from the migration
\* phase it has submitted every FILE or TABLE_ATTACHED_FILE row that was
\* ERRORED at its start, and a row whose task succeeded is MIGRATED.
C4_ErroredRowsRetried ==
    Completes =>
        \A i \in DOMAIN table0 :
            IsPayload(table0[i]) /\ table0[i].status = ERRORED =>
                /\ TimesSubmitted(KeyOf(table0[i])) = 1
                /\ migrations[i].status \in {MIGRATED, ERRORED}
                /\ migrations[i] # table0[i]

\* The tables (ids) with a TABLE_ATTACHED_FILE row pending in t.
PendingTables(t) ==
    {r.id : r \in {x \in Rows(t) : x.type = TABLE_ATTACHED_FILE /\ x.status = INDEXED}}
\* how many times table id was snapshotted by the current call
TimesSnapshotted(id) ==
    Cardinality({n \in DOMAIN SnapshotCalls : SnapshotCalls[n].key.id = id})

\* C5: under table_strategy 'snapshot' a call snapshots a table at most
\* once, only a table with a pending cell, and always right before it
\* submits the first cell of that table, so that no cell of a table is
\* submitted before the table's snapshot; a call that returns from the
\* migration phase has snapshotted each table with a pending cell exactly
\* once; under another strategy no snapshot is made.
C5_OneSnapshotPerTable ==
    /\ table_strategy # "snapshot" => SnapshotCalls = << >>
    /\ \A n \in DOMAIN calls :
          calls[n].op = "create_snapshot_version" =>
              /\ calls[n].key.id \in PendingTables(table0)
              /\ TimesSnapshotted(calls[n].key.id) = 1
              /\ n < Len(calls) /\ calls[n + 1] = [op |-> "submit", key |-> calls[n].key]
              /\ \A m \in 1..(n - 1) : calls[m].key.id # calls[n].key.id
    /\ table_strategy = "snapshot" =>
          \A n \in DOMAIN calls :
              calls[n].op = "submit" /\ calls[n].key.type = TABLE_ATTACHED_FILE =>
                  \E m \in 1..(n - 1) :
                      /\ calls[m].op = "create_snapshot_version"
                      /\ calls[m].key.id = calls[n].key.id
    /\ Completes /\ table_strategy = "snapshot" =>
          \A id \in PendingTables(table0) : TimesSnapshotted(id) = 1

\* A call under 'snapshot' has returned from the migration phase of two
\* tables, one of them with two pending cells, and a third table row was
\* not pending.
C5_Witness ==
    /\ Completes
    /\ table_strategy = "snapshot"
    /\ Len(SnapshotCalls) = 2
    /\ Len(SubmittedKeys) = 3

Changed(s, t) == {i \in DOMAIN s : s[i] # t[i]}
\* MigrationKey equality, a null component matching a null one.
SameKey(a, b) == \A x \in KeyFields : a[x] = b[x]

\* C7: a step that processes a completed future changes exactly one row,
\* the row whose key is the future's, and only its status, exception and
\* to_file_handle_id; no other step changes a row.
C7_UpdateExactlyTheKeyedRow ==
    [][ /\ DOMAIN migrations' = DOMAIN migrations
        /\ IF pc = "wait_futures" /\ completed' # completed
           THEN \E f \in completed \ completed' :
                  \E i \in DOMAIN migrations :
                      /\ Changed(migrations, migrations') = {i}
                      /\ SameKey(KeyOf(migrations[i]), f.key)
                      /\ migrations'[i] =
                            [migrations[i] EXCEPT
                                !.status = migrations'[i].status,
                                !.exception = migrations'[i].exception,
                                !.to_file_handle_id = migrations'[i].to_file_handle_id]
           ELSE migrations' = migrations ]_vars

\* Two versions of one file were in flight and the later one was processed
\* first: its row is MIGRATED while the earlier version's row is INDEXED and
\* its done future waits.
C7_Witness ==
    \E i, j \in DOMAIN migrations :
        /\ migrations[i].id = migrations[j].id
        /\ migrations[i].type = FILE /\ migrations[j].type = FILE
        /\ migrations[i].version < migrations[j].version
        /\ migrations[i].status = INDEXED
        /\ migrations[j].status = MIGRATED
        /\ \E f \in completed : f.key = KeyOf(migrations[i])

\* C8: the status of a row changes only from INDEXED to MIGRATED or from
\* INDEXED to ERRORED, and only for a FILE or TABLE_ATTACHED_FILE row: no
\* row returns to INDEXED, no MIGRATED row becomes ERRORED, and a PROJECT or
\* FOLDER row stays INDEXED.
C8_StatusMonotone ==
    [][ \A i \in DOMAIN migrations :
          /\ i \in DOMAIN migrations'
          /\ migrations'[i].status # migrations[i].status =>
                /\ migrations[i].status = INDEXED
                /\ migrations'[i].status \in {MIGRATED, ERRORED}
                /\ IsPayload(migrations[i]) ]_vars

\* In one call a row became MIGRATED and another ERRORED while the
\* project's row is INDEXED.
C8_Witness ==
    /\ \A r \in Rows(table0) : r.status = INDEXED
    /\ \E r \in Rows(migrations) : r.status = MIGRATED
    /\ \E r \in Rows(migrations) : r.status = ERRORED
    /\ \E r \in Rows(migrations) : r.type = PROJECT /\ r.status = INDEXED

\* C9: with continue_on_error false, the step that processes a failed task
\* raises out of migrate(): the row of the task's key is then ERRORED with
\* the text of the task's underlying exception, the exception raised is
\* that underlying exception and not the _MigrationError around it, and
\* once raised nothing more is submitted or recorded; with
\* continue_on_error true nothing is raised.
C9_RaiseCauseAfterCommit ==
    [][ /\ ( /\ pc = "wait_futures"
             /\ completed' # completed
             /\ ~continue_on_error
             /\ \E f \in completed \ completed' : f.state = "raised" )
           => pc' = "raised"
        /\ pc' = "raised" /\ pc # "raised" =>
              /\ ~continue_on_error
              /\ calls' = calls
              /\ \E f \in completed \ completed' :
                    /\ f.state = "raised"
                    /\ raised' = CopyException(f.key, f.from_file_handle_id)
                    /\ \E i \in DOMAIN migrations' :
                          /\ SameKey(KeyOf(migrations'[i]), f.key)
                          /\ migrations'[i].status = ERRORED
                          /\ migrations'[i].exception = f.from_file_handle_id
        /\ pc = "raised" =>
              /\ migrations' = migrations
              /\ pc' = "idle"
        /\ continue_on_error' => raised' = NoException ]_vars

\* migrate() has raised with another task still in flight.
C9_Witness ==
    /\ pc = "raised"
    /\ raised.cls = "SynapseError"
    /\ \E f \in futures : f.state = "running"

\* C10 (as claimed): when migrate() has raised, no task that ran to its end
\* has its row still INDEXED; stated for the batch size as shipped, where
\* the futures never exceed max_concurrent_file_copies.
C10_DoneTasksRecorded ==
    pc = "raised" /\ batch_size = ShippedBatchSize =>
        \A f \in futures \cup completed :
            f.state # "running" =>
                \A r \in Rows(migrations) :
                    SameKey(KeyOf(r), f.key) => r.status # INDEXED

\* C11: with continue_on_error true a failing task affects its own row
\* only: the step that processes a completed future sets the row of its key
\* to MIGRATED if the task returned and to ERRORED if it raised, and does
\* not raise; the call never raises, and when it returns from the migration
\* phase every row that was pending at its start, the rows ordered after a
\* failed one included, has been submitted once and is MIGRATED or ERRORED.
C11_FailureStaysInItsRow ==
    [][ continue_on_error' =>
          /\ pc' # "raised"
          /\ pc = "wait_futures" /\ completed' # completed =>
                \E f \in completed \ completed' :
                    \A i \in DOMAIN migrations' :
                        SameKey(KeyOf(migrations'[i]), f.key) =>
                            migrations'[i].status =
                                (IF f.state = "returned" THEN MIGRATED ELSE ERRORED)
          /\ pc' = "returned" /\ dry_run' = "False" =>
                \A i \in DOMAIN table0' :
                    IsPayload(table0'[i]) /\ table0'[i].status = INDEXED =>
                        /\ Cardinality({n \in DOMAIN calls' :
                              calls'[n] = [op |-> "submit", key |-> KeyOf(table0'[i])]}) = 1
                        /\ migrations'[i].status \in {MIGRATED, ERRORED} ]_vars

\* A call with continue_on_error true has returned from the migration
\* phase: a row that was pending is ERRORED and a row ordered after it,
\* pending too, is MIGRATED.
C11_Witness ==
    /\ Completes
    /\ continue_on_error
    /\ \E i, j \in DOMAIN migrations :
          /\ table0[i].status = INDEXED /\ table0[j].status = INDEXED
          /\ KeyLess(KeyOf(migrations[i]), KeyOf(migrations[j]))
          /\ migrations[i].status = ERRORED
          /\ migrations[j].status = MIGRATED

\* The rows whose task has returned (its remote mutation is done) while the
\* committed table still has them INDEXED.
LostOutcomes ==
    {i \in DOMAIN migrations :
        /\ migrations[i].status = INDEXED
        /\ \E f \in futures \cup completed :
              f.state = "returned" /\ SameKey(KeyOf(migrations[i]), f.key)}

\* C12 (as claimed): when the process is killed during the migration
\* phase, at most one row whose task has completed its remote mutation is
\* still INDEXED in the committed table; stated for the batch size as
\* shipped, where the futures never exceed max_concurrent_file_copies.
C12_AtMostOneOutcomeLost ==
    pc = "killed" /\ batch_size = ShippedBatchSize =>
        Cardinality(LostOutcomes) <= 1

\* C12: when the process is killed during the migration phase, every row
\* whose task has completed its remote mutation and that is still INDEXED
\* in the committed table belongs to a task the scheduler had not processed
\* yet, and with the batch size as shipped there are at most
\* max_concurrent_file_copies of them; the outcome of every task the
\* scheduler has processed is committed.
C12_LostOutcomesBounded ==
    pc = "killed" =>
        /\ batch_size = ShippedBatchSize =>
              Cardinality(LostOutcomes) <= max_concurrent_file_copies
        /\ \A k \in executed :
              (\A f \in futures \cup completed : f.key # k) =>
                  \A r \in Rows(migrations) :
                      SameKey(KeyOf(r), k) => r.status # INDEXED

\* The process was killed with max_concurrent_file_copies = 2 and the batch
\* size as shipped when two tasks had returned and none of them was
\* recorded, after an earlier task had been recorded.
C12_Witness ==
    /\ pc = "killed"
    /\ max_concurrent_file_copies = 2
    /\ batch_size = ShippedBatchSize
    /\ Cardinality(LostOutcomes) = 2
    /\ \E r \in Rows(migrations) : r.status = MIGRATED /\ KeyOf(r) \in executed

\* The rows one indexing of an entity and of what is under it inserts when
\* nothing interrupts it and failures are swallowed: the rows of each file
\* and table, and the row of each container whose children were listed.
RECURSIVE UninterruptedWalk(_, _)
UninterruptedWalk(entity_id, parent_id) ==
    LET type == ConcreteType(entity_id)
        children == getChildren(entity_id,
                        IncludeTypes(file_version_strategy, table_strategy))
    IN  IF type = "file"
        THEN index_file_entity(entity_id, parent_id, file_version_strategy,
                               service.index).rows
        ELSE IF type = "table"
        THEN index_table_entity(entity_id, parent_id, ShippedBatchSize,
                                service.index).rows
        ELSE IF entity_id \in service.index THEN << >>
        ELSE Flatten([n \in DOMAIN children |->
                        UninterruptedWalk(children[n], entity_id)])
             \o << IndexedRow(entity_id,
                              IF type = "project" THEN PROJECT ELSE FOLDER,
                              NULL, NULL, NULL, parent_id, NULL, NULL) >>

\* a row without its exception text
WithoutException(r) == [r EXCEPT !.exception = NULL]

\* The rows one uninterrupted call that returns from the migration phase
\* leaves, exception texts apart: each indexed FILE or TABLE_ATTACHED_FILE
\* row MIGRATED with the copy's file handle, or ERRORED if the service fails
\* the copy.
UninterruptedFinal ==
    { IF ~IsPayload(r) THEN r
      ELSE IF r.from_file_handle_id \in service.copy
      THEN [r EXCEPT !.status = ERRORED]
      ELSE [r EXCEPT !.status = MIGRATED,
                     !.to_file_handle_id = multipart_copy(r.from_file_handle_id)] :
      r \in Rows(UninterruptedWalk(Root, NULL)) }

\* C13: for the same arguments and the same answers of the services, a
\* call that returns from the migration phase leaves the rows, with the
\* status and file handles, that one uninterrupted call leaves, exception
\* texts apart and each row once, however many earlier calls against the
\* db file were killed, during indexing or during migration, raised or
\* were dry runs.
C13_ResumeEqualsUninterrupted ==
    Completes =>
        /\ {WithoutException(r) : r \in Rows(migrations)} = UninterruptedFinal
        /\ Len(migrations) = Cardinality(UninterruptedFinal)

\* A call has returned from the migration phase, with a row MIGRATED and a
\* row ERRORED, that found the db file as a call killed while indexing left
\* it, with rows and without the root's row.
C13_Witness ==
    /\ Completes
    /\ continue_on_error
    /\ table0 # << >>
    /\ ~check_indexed(table0, Root)
    /\ \E r \in Rows(migrations) : r.status = ERRORED
    /\ \E r \in Rows(migrations) : r.status = MIGRATED

\* The rows of a file or table when no call about it fails.
CompleteRows(entity_id, parent_id) ==
    IF ConcreteType(entity_id) = "file"
    THEN index_file_entity(entity_id, parent_id, file_version_strategy, {}).rows
    ELSE index_table_entity(entity_id, parent_id, ShippedBatchSize, {}).rows

\* C14 (as claimed): in every committed state of the table, if the row of
\* a project or folder exists then each of its children of the included
\* types has its rows: a folder its own row, a file or table a row for each
\* of its versions or cells; stated for the file strategies other than
\* 'latest'.
C14_ContainerRowCoversChildren ==
    file_version_strategy # "latest" =>
        \A r \in Rows(migrations) :
            r.type \in {PROJECT, FOLDER} =>
                LET children == getChildren(r.id,
                        IncludeTypes(file_version_strategy, table_strategy))
                IN  \A n \in DOMAIN children :
                        IF ConcreteType(children[n]) = "folder"
                        THEN \E x \in Rows(migrations) :
                                x.id = children[n] /\ x.type = FOLDER
                        ELSE \A x \in Rows(CompleteRows(children[n], r.id)) :
                                \E y \in Rows(migrations) : KeyOf(y) = KeyOf(x)

\* Whether the indexing of a file or table raises, for what the service
\* fails.
IndexFails(entity_id) ==
    IF ConcreteType(entity_id) = "file"
    THEN index_file_entity(entity_id, NULL, file_version_strategy,
                           service.index).raised # NoException
    ELSE index_table_entity(entity_id, NULL, ShippedBatchSize,
                            service.index).raised # NoException

\* C15 (as claimed): with continue_on_error true, no row of a file or
\* table whose indexing fails is ever committed to the table.
C15_FailedEntityLeavesNoRow ==
    continue_on_error =>
        \A entity_id \in {2, 3, 4} :
            IndexFails(entity_id) =>
                \A r \in Rows(migrations) : r.id # entity_id

\* whether the table t holds a row of the root entity
RootIndexed(t) == \E r \in Rows(t) : r.id = Root

\* C16: a call against a table that holds the root's row does no indexing:
\* it lists no children, versions, file handles or table rows, inserts no
\* row, and indexed_total stays 0; it submits only rows that were pending
\* at its start, and when it returns from the migration phase each of those
\* has left INDEXED and every other row is what it was.
C16_IndexedRootSkipsIndexing ==
    RootIndexed(table0) =>
        /\ pc # "index"
        /\ service_calls = << >>
        /\ pending = << >>
        /\ indexed_total = 0
        /\ DOMAIN migrations = DOMAIN table0
        /\ \A i \in DOMAIN table0 : KeyOf(migrations[i]) = KeyOf(table0[i])
        /\ \A n \in DOMAIN SubmittedKeys :
              \E r \in Rows(table0) :
                  KeyOf(r) = SubmittedKeys[n] /\ IsPayload(r) /\ r.status = INDEXED
        /\ Completes =>
              \A i \in DOMAIN table0 :
                  IF IsPayload(table0[i]) /\ table0[i].status = INDEXED
                  THEN migrations[i].status \in {MIGRATED, ERRORED}
                  ELSE migrations[i] = table0[i]

\* A call has returned from the migration phase, having submitted a row,
\* against a table that held the root's row and a row an earlier call had
\* MIGRATED.
C16_Witness ==
    /\ Completes
    /\ RootIndexed(table0)
    /\ \E r \in Rows(table0) : r.status = MIGRATED
    /\ Len(SubmittedKeys) > 0

\* C19: a call whose dry_run is not False submits no task, makes no
\* snapshot and runs no copy, never enters the migration phase, leaves the
\* rows it found as they were and the rows it inserts INDEXED, and its
\* migrated_total and error_total are 0; a call whose dry_run is False
\* submits nothing while it is indexing.
C19_DryRunIndexesOnly ==
    /\ dry_run # "False" =>
          /\ calls = << >>
          /\ futures = {} /\ completed = {} /\ executed = {}
          /\ migrated_total = 0 /\ error_total = 0
          /\ pc \notin {"loop", "query", "dispatch", "drain", "wait_futures"}
          /\ \A i \in DOMAIN table0 :
                i \in DOMAIN migrations /\ migrations[i] = table0[i]
          /\ \A r \in Rows(migrations \o pending) :
                r \in Rows(table0) \/ r.status = INDEXED
    /\ pc = "index" =>
          calls = << >> /\ futures = {} /\ completed = {} /\ executed = {}

\* A call with dry_run None has indexed the project and returned.
C19_Witness ==
    /\ pc = "returned"
    /\ dry_run = "None"
    /\ indexed_total > 0
    /\ Len(migrations) > Len(table0)
    /\ RootIndexed(migrations)

\* The inputs migrate() rejects: both strategies unset, a strategy outside
\* the values it accepts, or a storage location the caller does not own.
RejectedInput ==
    \/ file_version_strategy = "None" /\ table_strategy = "None"
    \/ file_version_strategy \notin {"new", "all", "latest", "None"}
    \/ table_strategy \notin {"snapshot", "noshapshot", "None"}
    \/ ~storage_location_owned

C17_NoSnapshotAfterMigratedCell ==
    table_strategy = "snapshot" =>
        \A n \in DOMAIN SnapshotCalls :
            \A r \in Rows(table0) :
                r.type = TABLE_ATTACHED_FILE /\ r.id = SnapshotCalls[n].key.id
                    => r.status # MIGRATED

\* C18 (as claimed): no two rows of the table have the same MigrationKey,
\* a null component equal to a null one, and the insert of a row whose key
\* the table holds is ignored and raises nothing.
C18_KeysUniqueInsertIgnored ==
    /\ \A i, j \in DOMAIN migrations :
          i # j => ~SameKey(KeyOf(migrations[i]), KeyOf(migrations[j]))
    /\ raised # IntegrityError

\* C21 (as claimed): a call with table_strategy 'nosnapshot', an accepted
\* file version strategy and a storage location its caller owns passes
\* validation: it does not raise ValueError, and it snapshots no table.
C21_NosnapshotAccepted ==
    /\ table_strategy = "nosnapshot"
    /\ file_version_strategy \in {"new", "all", "latest", "None"}
    /\ storage_location_owned
    => raised # ValueError /\ SnapshotCalls = << >>

\* C22 (as claimed): under file_version_strategy 'latest', the entity
\* service answering about the file, indexing does not fail with the
\* insert's error and, once the root is indexed, the table holds exactly one
\* FILE row of the file: INDEXED, of the current version 2, with that
\* version's file handle 32 and storage location 7.
C22_LatestIndexesCurrentVersion ==
    file_version_strategy = "latest" /\ 3 \notin service.index =>
        /\ raised # ProgrammingError
        /\ RootIndexed(migrations) =>
              /\ Cardinality({i \in DOMAIN migrations :
                                 migrations[i].id = 3}) = 1
              /\ \E r \in Rows(migrations) :
                    /\ r.id = 3 /\ r.type = FILE /\ r.version = 2
                    /\ r.from_file_handle_id = 32
                    /\ r.from_storage_location_id = 7

\* C23 (as claimed): the empty cell of a table's row produces no file handle
\* lookup (no call of the service with the id None), no row (the table
\* holds no TABLE_ATTACHED_FILE row without a file handle) and no indexing
\* error; the non-empty cell of that row has its row once the indexer has
\* returned.
C23_EmptyCellSkipped ==
    /\ NULL \notin Rows(service_calls)
    /\ \A r \in Rows(migrations) :
          r.type = TABLE_ATTACHED_FILE => r.from_file_handle_id # NULL
    /\ raised.cls # "SynapseHTTPError"
    /\ pc = "returned" /\ 61 \in Rows(service_calls) =>
          \E r \in Rows(migrations) : r.from_file_handle_id = 61

\* C24 (as claimed): a payload whose storage location is the one the call
\* migrates to is treated as already migrated: no task is submitted for its
\* row, no copy runs for it, and its row is not left INDEXED in the table.
C24_AlreadyInTargetNotDispatched ==
    /\ \A n \in DOMAIN SubmittedKeys :
          \A r \in Rows(migrations) :
              SameKey(KeyOf(r), SubmittedKeys[n])
                  => r.from_storage_location_id # storage_location_id
    /\ \A r \in Rows(migrations) :
          IsPayload(r) /\ r.from_storage_location_id = storage_location_id
              => r.status # INDEXED

\* whether in the table t each container that has a row has, for each of
\* its children of the included types, the child's rows
ContainersCovered(t) ==
    \A r \in Rows(t) :
        r.type \in {PROJECT, FOLDER} =>
            LET children == getChildren(r.id,
                    IncludeTypes(file_version_strategy, table_strategy))
            IN  \A n \in DOMAIN children :
                    IF ConcreteType(children[n]) = "folder"
                    THEN \E x \in Rows(t) : x.id = children[n] /\ x.type = FOLDER
                    ELSE \A x \in Rows(CompleteRows(children[n], r.id)) :
                            \E y \in Rows(t) : KeyOf(y) = KeyOf(x)

\* whether the indexing of the entity itself raises, for what the service
\* fails and the file strategy
EntityFails(entity_id) ==
    IF ConcreteType(entity_id) \in {"project", "folder"}
    THEN entity_id \in service.index
    ELSE IndexFails(entity_id)

\* C25: with continue_on_error false, the step in which the indexing of an
\* entity fails makes migrate() raise that exception, with no task
\* submitted and the committed table as it was before the step (what the
\* failed indexing inserted is not persisted); a call that raises from
\* indexing has run no task; no container has a row while a child of it
\* lacks its rows; and a call lists or looks up only entities that had no
\* row when it started.
C25_FirstIndexFailureAborts ==
    [][ ~continue_on_error =>
          /\ \A e \in {1, 2, 3, 4, 5} :
                /\ pc = "index"
                /\ service_calls' = Append(service_calls, e)
                /\ EntityFails(e)
                => /\ pc' = "raised"
                   /\ raised'.cls \in {"SynapseHTTPError", "ProgrammingError"}
                   /\ raised'.code \in {NULL} \cup service.index
          /\ pc = "index" /\ pc' = "raised" =>
                /\ migrations' = migrations
                /\ pending' = << >>
                /\ calls' = << >> /\ futures' = {} /\ executed' = {}
          /\ ContainersCovered(migrations')
          /\ \A n \in DOMAIN service_calls' :
                \A r \in Rows(table0') : r.id # service_calls'[n]
      ]_vars

\* With continue_on_error false a call has raised the failure of table 4,
\* which is in folder 5: the rows of table 2 are committed, and neither the
\* folder nor the project has a row.
C25_Witness ==
    /\ pc = "raised"
    /\ ~continue_on_error
    /\ raised = ServiceError(4)
    /\ \E r \in Rows(migrations) : r.id = 2
    /\ \A r \in Rows(migrations) : r.type \notin {PROJECT, FOLDER}
    /\ calls = << >>

\* C29 (as claimed): when a call has returned, the table holds one INDEXED
\* row of type PROJECT or FOLDER for each container reachable from the
\* root, the project 1 and its folder 5 (folders are listed under every
\* strategy), and no other row of those types.
C29_OneRowPerReachableContainer ==
    pc = "returned" =>
        /\ \A c \in {1, 5} :
              Cardinality({i \in DOMAIN migrations :
                             /\ migrations[i].id = c
                             /\ migrations[i].type \in {PROJECT, FOLDER}
                             /\ migrations[i].status = INDEXED}) = 1
        /\ Cardinality({i \in DOMAIN migrations :
                           migrations[i].type \in {PROJECT, FOLDER}}) = 2

\* C26: in every state of the committed table a MIGRATED row has a
\* to_file_handle_id, the one the copy of its file handle returned, and an
\* ERRORED row has an exception text; a row that is still INDEXED has
\* neither.
C26_OutcomeFieldsSet ==
    \A r \in Rows(migrations) :
        /\ r.status = MIGRATED =>
              /\ r.to_file_handle_id # NULL
              /\ r.to_file_handle_id = r.from_file_handle_id + 100
        /\ r.status = ERRORED => r.exception # NULL
        /\ r.status = INDEXED =>
              r.to_file_handle_id = NULL /\ r.exception = NULL

\* The scheduler is recording completed tasks and the table holds a
\* MIGRATED row and an ERRORED row.
C26_Witness ==
    /\ pc = "wait_futures"
    /\ \E r \in Rows(migrations) : r.status = MIGRATED
    /\ \E r \in Rows(migrations) : r.status = ERRORED

\* whether migrate() is in its migration phase
Migrating == pc \in {"loop", "query", "dispatch", "drain", "wait_futures"}

\* C27: every submitted task eventually completing, a call that enters the
\* migration phase leaves it: it returns or raises. When it returns every
\* submitted task has been awaited and recorded (no future is left), an
\* empty batch having ended the dispatching, and with continue_on_error
\* true no FILE or TABLE_ATTACHED_FILE row is left INDEXED.
C27_MigrationPhaseTerminates ==
    /\ Migrating ~> pc \in {"returned", "raised"}
    /\ [](Completes =>
            /\ futures = {} /\ completed = {}
            /\ results = << >>
            /\ \A n \in DOMAIN SubmittedKeys :
                  \A r \in Rows(migrations) :
                      SameKey(KeyOf(r), SubmittedKeys[n]) => r.status # INDEXED
            /\ continue_on_error =>
                  \A r \in Rows(migrations) : IsPayload(r) => r.status # INDEXED)

\* A call with continue_on_error true and one task at a time has returned
\* from the migration phase after three tasks, one of which failed.
C27_Witness ==
    /\ Completes
    /\ continue_on_error
    /\ max_concurrent_file_copies = 1
    /\ Len(SubmittedKeys) = 3
    /\ error_total = 1 /\ migrated_total = 2

\* the fields of a row that no update writes
FrameFields ==
    {"id", "type", "version", "row_id", "col_id", "parent_id",
     "from_storage_location_id", "from_file_handle_id"}

\* C28: no step deletes or moves a row, and only a step of the indexing
\* phase adds rows; every step leaves each row's key fields, parent_id,
\* from_storage_location_id and from_file_handle_id as they were, and a
\* PROJECT or FOLDER row wholly as it was; a row's status, exception or
\* to_file_handle_id changes only while completed tasks are recorded.
C28_RowsKeptFrameUnchanged ==
    [][ /\ Len(migrations') >= Len(migrations)
        /\ Len(migrations') > Len(migrations) => pc = "index" /\ ~Migrating
        /\ \A i \in DOMAIN migrations :
              /\ \A x \in FrameFields : migrations'[i][x] = migrations[i][x]
              /\ migrations[i].type \in {PROJECT, FOLDER}
                    => migrations'[i] = migrations[i]
              /\ migrations'[i] # migrations[i] => pc = "wait_futures"
      ]_vars

\* One call has indexed the project and returned from the migration phase:
\* the table holds the rows of the project and of its folder, and a
\* MIGRATED row of the table in the folder.
C28_Witness ==
    /\ Completes
    /\ table0 = << >>
    /\ \E r \in Rows(migrations) : r.type = PROJECT
    /\ \E r \in Rows(migrations) : r.type = FOLDER
    /\ \E r \in Rows(migrations) : r.id = 4 /\ r.status = MIGRATED

\* the rows of file 3 in the table t
FileRowsOf(t) == {t[i] : i \in {j \in DOMAIN t : t[j].id = 3}}
\* how many rows of file 3 the table t holds
FileRowCount(t) == Cardinality({j \in DOMAIN t : t[j].id = 3})

\* what C30 says of the rows of file 3 in the table t: none before the
\* file is indexed; then under 'new' one FILE row with version null and the
\* current file handle 32, under 'all' one FILE row for each of the
\* versions 1 and 2 with that version's file handle 31 or 32, each in
\* storage location 7; none when the file strategy is unset.
FileRowsAsClaimed(t) ==
    /\ \A r \in FileRowsOf(t) :
          r.type = FILE /\ r.parent_id = Root /\ r.from_storage_location_id = 7
    /\ file_version_strategy = "new" /\ FileRowsOf(t) # {} =>
          /\ FileRowCount(t) = 1
          /\ \A r \in FileRowsOf(t) :
                r.version = NULL /\ r.from_file_handle_id = 32
    /\ file_version_strategy = "all" /\ FileRowsOf(t) # {} =>
          /\ FileRowCount(t) = 2
          /\ {<< r.version, r.from_file_handle_id >> : r \in FileRowsOf(t)}
                = {<< 1, 31 >>, << 2, 32 >>}
    /\ file_version_strategy = "None" => FileRowsOf(t) = {}
    /\ /\ file_version_strategy \in {"new", "all"}
       /\ 3 \notin service.index
       /\ RootIndexed(t)
       => FileRowsOf(t) # {}

\* C30: after every step the rows of the file in the table are as claimed
\* for the file strategy, and every row a step adds to the table has status
\* INDEXED.
C30_FileRowsPerStrategy ==
    [][ /\ FileRowsAsClaimed(migrations')
        /\ \A i \in DOMAIN migrations' :
              i \notin DOMAIN migrations => migrations'[i].status = INDEXED
      ]_vars

\* A dry run under 'all' has returned with the two rows of the file's
\* versions in the table.
C30_Witness ==
    /\ pc = "returned"
    /\ dry_run = "True"
    /\ file_version_strategy = "all"
    /\ FileRowCount(migrations) = 2
    /\ RootIndexed(migrations)

\* the rowids of the FILE and TABLE_ATTACHED_FILE rows of the table,
\* ascending
PayloadRowids ==
    SelectSeq([i \in DOMAIN migrations |-> i],
              LAMBDA i : migrations[i].type \in {FILE, TABLE_ATTACHED_FILE})

\* C31: at every point of an iteration of get_migrations() over a table
\* nothing writes, the n-th row_dict yielded is that of the n-th FILE or
\* TABLE_ATTACHED_FILE row in rowid order, with type 'file' or 'table' and
\* status as the enum name (so no row is yielded twice and no PROJECT or
\* FOLDER row is yielded); when the iteration ends every such row was
\* yielded; and the iteration ends, whatever the batch size.
C31_GetMigrationsYieldsPayloadOnce ==
    /\ [](/\ Len(row_dicts) <= Len(PayloadRowids)
          /\ \A n \in DOMAIN row_dicts :
                LET r == migrations[PayloadRowids[n]]
                IN  /\ row_dicts[n].id = r.id
                    /\ row_dicts[n].version = r.version
                    /\ row_dicts[n].row_id = r.row_id
                    /\ row_dicts[n].from_file_handle_id = r.from_file_handle_id
                    /\ row_dicts[n].to_file_handle_id = r.to_file_handle_id
                    /\ row_dicts[n].type =
                          (IF r.type = FILE THEN "file" ELSE "table")
                    /\ row_dicts[n].status =
                          << "INDEXED", "MIGRATED", "ALREADY_MIGRATED",
                             "ERRORED" >>[r.status]
          /\ pc = "exhausted" => Len(row_dicts) = Len(PayloadRowids))
    /\ pc = "select" ~> pc = "exhausted"

\* An iteration with batch size 2 has ended over a table of three
\* payload rows, MIGRATED, ERRORED and INDEXED among them, and the project's
\* row.
C31_Witness ==
    /\ pc = "exhausted"
    /\ batch_size = 2
    /\ Len(row_dicts) = 3
    /\ Len(migrations) = 4
    /\ {row_dicts[n].status : n \in DOMAIN row_dicts}
          = {"INDEXED", "MIGRATED", "ERRORED"}
    /\ {row_dicts[n].type : n \in DOMAIN row_dicts} = {"file", "table"}

\* C32 (as claimed): every task that has run has called the operation
\* selected for its own key: _create_new_file_version for a FILE key with
\* no version, _migrate_file_version for a FILE key with a version,
\* _migrate_table_attached_file for a TABLE_ATTACHED_FILE key.
C32_TaskRunsOperationOfItsKey ==
    \A f \in futures \cup completed :
        f.state # "running" =>
            f.migration_fn =
                (IF f.key.type = TABLE_ATTACHED_FILE
                 THEN "_migrate_table_attached_file"
                 ELSE IF f.key.version = NULL THEN "_create_new_file_version"
                 ELSE "_migrate_file_version")

\* C33 (as claimed): for every thread count of the pool, a thread is always
\* left for the nested copies: the migration tasks never hold all the
\* threads of the pool, and a queued part copy can always get a thread or
\* another part is being copied.
C33_ThreadLeftForNestedCopies ==
    /\ Cardinality({t \in DOMAIN pool_tasks : pool_tasks[t] = "copying"})
          < thread_count
    /\ (\E t \in DOMAIN pool_parts : pool_parts[t] = "queued") =>
          \/ BusyThreads < thread_count
          \/ \E t \in DOMAIN pool_parts : pool_parts[t] = "running"

\* how many rows of the table the current call changed to the status
ChangedTo(status) ==
    Cardinality({i \in DOMAIN migrations :
                    /\ migrations[i].status = status
                    /\ i \in DOMAIN table0 => table0[i].status # status})

\* C34 (as claimed): when a call returns, migrated_total is the number of
\* rows it changed to MIGRATED, error_total the number it changed to
\* ERRORED, their sum the number of tasks it submitted, and indexed_total
\* the number of FILE and TABLE_ATTACHED_FILE rows it added to the table.
C34_TotalsCountTheRun ==
    pc = "returned" =>
        /\ migrated_total = ChangedTo(MIGRATED)
        /\ error_total = ChangedTo(ERRORED)
        /\ migrated_total + error_total = Len(SubmittedKeys)
        /\ indexed_total =
              Cardinality({i \in DOMAIN migrations :
                              i \notin DOMAIN table0 /\ IsPayload(migrations[i])})

RECURSIVE SumTo(_, _)
\* f[1] + ... + f[n]
SumTo(f, n) == IF n = 0 THEN 0 ELSE f[n] + SumTo(f, n - 1)

\* C35: with output enabled, the cumulative total always equals the sum, over
\* the finished and the running transfers, of the last value of transferred
\* each one reported, whatever the interleaving of the threads' calls and
\* however the threads are reused for later transfers.
C35_TotalIsSumOfLastReports ==
    isatty => total_transferred
                  = finished_total + SumTo(last_reported, MaxTransferThreads)

\* a thread that finished a transfer reports for a later one while another
\* thread's transfer is running
C35_Witness ==
    /\ isatty
    /\ finished_total > 0
    /\ \E t, u \in DOMAIN transfer :
          /\ t # u
          /\ last_reported[t] > 0
          /\ last_reported[u] > 0
          /\ transfer[t].pc = "locked"

====
